---- MODULE Spec2Model ----
(***************************************************************************)
(* A model of the oxischeme runtime: the arena allocator, the mark and     *)
(* sweep collector with precise rooting (heap.rs), the heap entities that  *)
(* take part in tracing (value.rs, environment.rs) and the trampolined     *)
(* evaluator (eval.rs).                                                    *)
(***************************************************************************)
EXTENDS Integers, Sequences, FiniteSets, Bags, TLC

VARIABLES
    cons_cells,         \* Heap.cons_cells   : Arena<Cons>        [pool, free]
    strings,            \* Heap.strings      : Arena<String>      [pool, free]
    environments,       \* Heap.environments : Arena<Activation>  [pool, free]
    procedures,         \* Heap.procedures   : Arena<Procedure>   [pool, free]
    roots,              \* Heap.roots        : HashMap<GcThing, uint>
    symbol_table,       \* Heap.symbol_table : HashMap<String, StringPtr>
    global_environment, \* Heap.global_environment (index in environments)
    allocations,        \* Heap.allocations  : the GC pressure counter
    rooted,             \* the live Rooted<T> smart pointers (bag of referents)
    pc,                 \* position inside Heap::allocate_*: "idle" or the kind
    panicked,           \* "" while running, else the panic that ended the run
    marked,             \* the `marked` set of the last collect_garbage
    gc,                 \* why the last step ran collect_garbage, "" if not
    ret,                \* the GC thing returned by the last Arena::allocate
    issued,             \* every (name, pointer) get_or_create_symbol returned
    budget,             \* heap API calls the client may still make (< 0: any)
    stack,              \* the evaluator's calls on the host stack, oldest first
    ctl,                \* the call being made or the result being returned
    forms,              \* the top-level forms still to run
    prog,               \* the program that was loaded: its shape and its N
    environment,        \* Heap.environment : the bindings of each open block
    log,                \* the calls and returns of Meaning::evaluate so far
    scope               \* for each activation, the names of its block

heapVars == <<cons_cells, strings, environments, procedures, roots,
              symbol_table, global_environment, allocations>>

evalVars == <<stack, ctl, forms, prog, environment, log, scope>>

vars == <<cons_cells, strings, environments, procedures, roots, symbol_table,
          global_environment, allocations, rooted, pc, panicked, marked, gc,
          ret, issued, budget, stack, ctl, forms, prog, environment, log,
          scope>>

----------------------------------------------------------------------------
(* Bounds of the model.                                                    *)

ConsCapacity == 2
StringsCapacity == 2
EnvironmentsCapacity == 2
ProceduresCapacity == 1
MaxRooted == 2
MaxVals == 1
MaxSteps == 7
MaxN == 5
MaxArity == 2
MaxBegin == 3

Names == {"a", "b"}

(* heap.rs:496 *)
MAX_GC_PRESSURE == 256

----------------------------------------------------------------------------
(* Values and GC things.                                                   *)

NoThing == [kind |-> "None", index |-> 0]

EmptyList == [tag |-> "EmptyList", index |-> 0]
Pair(i) == [tag |-> "Pair", index |-> i]
StringVal(i) == [tag |-> "String", index |-> i]
Symbol(i) == [tag |-> "Symbol", index |-> i]
ProcedureVal(i) == [tag |-> "Procedure", index |-> i]
ActivationPtr(i) == [tag |-> "ActivationPtr", index |-> i]
StringPtr(i) == [tag |-> "StringPtr", index |-> i]

Integer(n) == [tag |-> "Integer", index |-> n]
Boolean(b) == [tag |-> "Boolean", index |-> IF b THEN 1 ELSE 0]
PrimitiveVal(k) == [tag |-> "Primitive", index |-> k]
Character(c) == [tag |-> "Character", index |-> c]

GcThing(k, i) == [kind |-> k, index |-> i]

(* The Option<GcThing> of to_gc_thing, as a sequence of length 0 or 1. *)
ToGcThing(v) ==
    CASE v.tag = "String"        -> <<GcThing("String", v.index)>>
      [] v.tag = "Symbol"        -> <<GcThing("String", v.index)>>
      [] v.tag = "Pair"          -> <<GcThing("Cons", v.index)>>
      [] v.tag = "Procedure"     -> <<GcThing("Procedure", v.index)>>
      [] v.tag = "ActivationPtr" -> <<GcThing("Environment", v.index)>>
      [] v.tag = "StringPtr"     -> <<GcThing("String", v.index)>>
      [] OTHER                   -> <<>>

(* MeaningData: what syntactic analysis makes of a form. *)
Quotation(v) == [op |-> "Quotation", val |-> v]
Reference(i, j) == [op |-> "Reference", i |-> i, j |-> j]
Definition(i, j, value) ==
    [op |-> "Definition", i |-> i, j |-> j, value |-> value]
Conditional(condition, consequent, alternative) ==
    [op |-> "Conditional", condition |-> condition,
     consequent |-> consequent, alternative |-> alternative]
Sequence(first, second) ==
    [op |-> "Sequence", first |-> first, second |-> second]
SetVariable(i, j, value) ==
    [op |-> "SetVariable", i |-> i, j |-> j, value |-> value]
Lambda(arity, body) == [op |-> "Lambda", arity |-> arity, body |-> body]
Invocation(procedure, params) ==
    [op |-> "Invocation", procedure |-> procedure, params |-> params]

DefaultCons == [car |-> EmptyList, cdr |-> EmptyList]
DefaultString == ""
DefaultActivation == [parent |-> <<>>, vals |-> <<>>]
DefaultProcedure == [arity |-> 0, body |-> <<>>, act |-> <<>>]

----------------------------------------------------------------------------
(* Arena.                                                                  *)

(* range(lo, hi) *)
Range(lo, hi) == [k \in 1 .. (hi - lo) |-> lo + k - 1]

(* Faulty variant: the filter of sweep without its negation. *)
FilterLive(s, live) == SelectSeq(s, LAMBDA n : n \in live)

(* .filter(|n| !live.contains(n)) *)
Filter(s, live) == SelectSeq(s, LAMBDA n : n \notin live)

ArenaNew(capacity, default) ==
    [pool |-> [i \in 0 .. capacity - 1 |-> default],
     free |-> Range(0, capacity)]

Capacity(arena) == Cardinality(DOMAIN arena.pool)

IsFull(arena) == arena.free = <<>>

(* Faulty variant: allocate reads the last entry of the free list and      *)
(* leaves it there.                                                        *)
AllocArenaKeeping(arena) == arena

(* Arena::allocate pops the last entry of the free list. *)
AllocIndex(arena) == arena.free[Len(arena.free)]
AllocArena(arena) ==
    [arena EXCEPT !.free = SubSeq(arena.free, 1, Len(arena.free) - 1)]

(* Faulty variant: a sweep whose range stops one slot short. *)
ArenaSweepShort(arena, live) ==
    [arena EXCEPT !.free = Filter(Range(0, Capacity(arena) - 1), live)]

ArenaSweep(arena, live) ==
    [arena EXCEPT !.free = Filter(Range(0, Capacity(arena)), live)]

SeqToSet(s) == {s[i] : i \in 1 .. Len(s)}

RECURSIVE SetToSeq(_)
SetToSeq(S) ==
    IF S = {} THEN <<>>
    ELSE LET x == CHOOSE y \in S : TRUE IN <<x>> \o SetToSeq(S \ {x})

----------------------------------------------------------------------------
(* Trace: the GC things an object refers to.                               *)

ConsTrace(c) == ToGcThing(c.car) \o ToGcThing(c.cdr)

RECURSIVE ValsTrace(_)
ValsTrace(vals) ==
    IF vals = <<>> THEN <<>>
    ELSE (IF Head(vals) = <<>> THEN <<>> ELSE ToGcThing(Head(vals)[1]))
         \o ValsTrace(Tail(vals))

ActivationTrace(a) ==
    ValsTrace(a.vals)
    \o (IF a.parent = <<>> THEN <<>>
        ELSE <<GcThing("Environment", a.parent[1])>>)

(* Faulty variant: a procedure that does not trace its activation. *)
ProcedureTraceWithoutAct(p) == <<>>

(* The body is not traced; an uninitialized procedure has no act. *)
ProcedureTrace(p) ==
    IF p.act = <<>> THEN <<>> ELSE <<GcThing("Environment", p.act[1])>>

Trace(g) ==
    CASE g.kind = "Cons"        -> ConsTrace(cons_cells.pool[g.index])
      [] g.kind = "Environment" -> ActivationTrace(environments.pool[g.index])
      [] g.kind = "Procedure"   -> ProcedureTrace(procedures.pool[g.index])
      [] OTHER                  -> <<>>

----------------------------------------------------------------------------
(* The root table.                                                         *)

RootCount(r, g) == IF g \in DOMAIN r THEN r[g] ELSE 0

(* Faulty variant: add_root that inserts 1 whatever the current count. *)
AddRootOnce(r, g) ==
    [x \in DOMAIN r \cup {g} |-> IF x = g THEN 1 ELSE r[x]]

AddRoot(r, g) ==
    [x \in DOMAIN r \cup {g} |-> IF x = g THEN RootCount(r, g) + 1 ELSE r[x]]

(* Faulty variant: drop_root that removes the thing whatever its count. *)
DropRootWhole(r, g) == [x \in DOMAIN r \ {g} |-> r[x]]

(* Only called for g \in DOMAIN r; the caller models the failed expect. *)
DropRoot(r, g) ==
    IF r[g] = 1 THEN [x \in DOMAIN r \ {g} |-> r[x]]
    ELSE [r EXCEPT ![g] = r[g] - 1]

(* Rooted::add_root and Rooted::drop_root: nothing for a referent that is  *)
(* no GC thing.                                                            *)
RootedAddRoot(r, ptr) ==
    IF ToGcThing(ptr) = <<>> THEN r ELSE AddRoot(r, ToGcThing(ptr)[1])

RootedDropRootFails(r, ptr) ==
    ToGcThing(ptr) # <<>> /\ ToGcThing(ptr)[1] \notin DOMAIN r

RootedDropRoot(r, ptr) ==
    IF ToGcThing(ptr) = <<>> THEN r ELSE DropRoot(r, ToGcThing(ptr)[1])

(* Faulty variants: get_roots with one of its three sources left out. *)
GetRootsWithoutRooted ==
    SetToSeq({GcThing("String", symbol_table[n]) : n \in DOMAIN symbol_table})
    \o <<GcThing("Environment", global_environment)>>

GetRootsWithoutSymbols ==
    <<GcThing("Environment", global_environment)>>
    \o SetToSeq(DOMAIN roots)

GetRootsWithoutGlobal ==
    SetToSeq({GcThing("String", symbol_table[n]) : n \in DOMAIN symbol_table})
    \o SetToSeq(DOMAIN roots)

GetRoots ==
    SetToSeq({GcThing("String", symbol_table[n]) : n \in DOMAIN symbol_table})
    \o <<GcThing("Environment", global_environment)>>
    \o SetToSeq(DOMAIN roots)

----------------------------------------------------------------------------
(* collect_garbage: mark, then sweep each arena.                           *)

(* One pass of `for thing in pending_trace.drain()`: the state is the      *)
(* marked set and the newly pending vector.                                *)
RECURSIVE MarkPass(_, _, _)
MarkPass(pending, m, newly) ==
    IF pending = <<>> THEN [marked |-> m, newly |-> newly]
    ELSE LET thing == Head(pending) IN
         IF thing \notin m
         THEN MarkPass(Tail(pending), m \cup {thing}, newly \o Trace(thing))
         ELSE MarkPass(Tail(pending), m, newly)

RECURSIVE MarkLoop(_, _)
MarkLoop(pending, m) ==
    IF pending = <<>> THEN m
    ELSE LET r == MarkPass(pending, m, <<>>) IN MarkLoop(r.newly, r.marked)

Mark == MarkLoop(GetRoots, {})

Live(m, k) == {g.index : g \in {x \in m : x.kind = k}}

(* Faulty variant: any_arena_is_full that does not ask the activations. *)
AnyArenaIsFullWithoutEnvironments ==
    \/ IsFull(cons_cells)
    \/ IsFull(strings)
    \/ IsFull(procedures)

AnyArenaIsFull ==
    \/ IsFull(cons_cells)
    \/ IsFull(strings)
    \/ IsFull(procedures)
    \/ IsFull(environments)

(* Faulty variant: is_too_much_pressure with >= for >. *)
IsTooMuchPressureAtLimit(n) == n >= MAX_GC_PRESSURE

IsTooMuchPressure(n) == n > MAX_GC_PRESSURE

----------------------------------------------------------------------------
(* Initial state: Heap::with_arenas takes the global activation straight   *)
(* from the arena, with no on_allocation and no Rooted.                    *)

HeapInit(conses, strs, envs, procs) ==
    /\ cons_cells = ArenaNew(conses, DefaultCons)
    /\ strings = ArenaNew(strs, DefaultString)
    /\ environments = AllocArena(ArenaNew(envs, DefaultActivation))
    /\ procedures = ArenaNew(procs, DefaultProcedure)
    /\ roots = [x \in {} |-> 0]
    /\ symbol_table = [x \in {} |-> 0]
    /\ global_environment = AllocIndex(ArenaNew(envs, DefaultActivation))
    /\ allocations = 0

(* The client holds no smart pointer and is in no call. *)
ClientInit ==
    /\ rooted = EmptyBag
    /\ pc = "idle"
    /\ panicked = ""
    /\ marked = {}
    /\ gc = ""
    /\ ret = NoThing
    /\ issued = {}

(* A result being handed back, or a call being made, by the evaluator. *)
Control(mode, m, act, val, err) ==
    [mode |-> mode, m |-> m, act |-> act, val |-> val, err |-> err]

(* No program is loaded. *)
EvalIdle ==
    /\ stack = <<>>
    /\ ctl = Control("idle", <<>>, 0, EmptyList, "")
    /\ forms = <<>>
    /\ prog = [shape |-> "", n |-> 0]
    /\ environment = <<>>
    /\ log = <<>>
    /\ scope = <<>>

Init ==
    /\ HeapInit(ConsCapacity, StringsCapacity, EnvironmentsCapacity,
                ProceduresCapacity)
    /\ ClientInit
    /\ budget = MaxSteps
    /\ EvalIdle

----------------------------------------------------------------------------
(* Steps of the heap.                                                      *)

Running == panicked = ""
Idle == Running /\ pc = "idle" /\ budget # 0
Called == budget' = IF budget < 0 THEN budget ELSE budget - 1

Handles == BagToSet(rooted)
IsValue(v) ==
    v.tag \in {"EmptyList", "Pair", "String", "Symbol", "Procedure", "Integer",
               "Boolean", "Primitive"}
CanRoot == BagCardinality(rooted) < MaxRooted

NoCollection == marked' = {} /\ gc' = ""
NoAllocation == ret' = NoThing
ArenasUnchanged ==
    UNCHANGED <<cons_cells, strings, environments, procedures>>

(* Rooted::new(heap, ptr): a new smart pointer, its referent rooted. *)
NewRooted(ptr) ==
    /\ rooted' = rooted (+) SetToBag({ptr})
    /\ roots' = RootedAddRoot(roots, ptr)

(* The body of collect_garbage. *)
Collect(why) ==
    LET m == Mark IN
    /\ allocations' = 0
    /\ strings' = ArenaSweep(strings, Live(m, "String"))
    /\ environments' = ArenaSweep(environments, Live(m, "Environment"))
    /\ cons_cells' = ArenaSweep(cons_cells, Live(m, "Cons"))
    /\ procedures' = ArenaSweep(procedures, Live(m, "Procedure"))
    /\ marked' = m
    /\ gc' = why

(* Heap::collect_garbage called directly (the REPL does after each form). *)
CollectGarbage ==
    /\ Idle
    /\ Collect("collect_garbage")
    /\ NoAllocation
    /\ Called
    /\ UNCHANGED <<roots, symbol_table, global_environment, rooted, pc,
                   panicked, issued>>
    /\ UNCHANGED evalVars

ActivationHandles == {h \in Handles : h.tag = "ActivationPtr"}
ValueHandles == {h \in Handles : IsValue(h)}

(* What the caller of an allocation holds when it calls. *)
Ready(op) ==
    CASE op = "new_pair"             -> ValueHandles # {}
      [] op = "get_or_create_symbol" -> \E n \in Names : n \notin DOMAIN symbol_table
      [] op = "extend"               -> ActivationHandles # {}
      [] op = "new_procedure"        -> ActivationHandles # {}
      [] OTHER                       -> TRUE

(* Heap::on_allocation, the first statement of every Heap::allocate_*. The *)
(* caller `op` is new_pair, new_string, get_or_create_symbol (for a name   *)
(* the table lacks), Activation::extend or new_procedure.                  *)
OnAllocation(op) ==
    /\ Idle
    /\ CanRoot
    /\ Ready(op)
    /\ IF AnyArenaIsFull
       THEN Collect("any_arena_is_full")
       ELSE IF IsTooMuchPressure(allocations + 1)
            THEN Collect("is_too_much_pressure")
            ELSE /\ allocations' = allocations + 1
                 /\ ArenasUnchanged
                 /\ NoCollection
    /\ pc' = op
    /\ NoAllocation
    /\ Called
    /\ UNCHANGED <<roots, symbol_table, global_environment, rooted, panicked,
                   issued>>
    /\ UNCHANGED evalVars

(* Arena::allocate on an empty free list. *)
OutOfMemory ==
    /\ Running
    /\ \/ pc = "new_pair" /\ IsFull(cons_cells)
       \/ pc \in {"new_string", "get_or_create_symbol"} /\ IsFull(strings)
       \/ pc = "extend" /\ IsFull(environments)
       \/ pc = "new_procedure" /\ IsFull(procedures)
    /\ panicked' = "Arena::allocate: out of memory!"
    /\ UNCHANGED <<cons_cells, strings, environments, procedures, roots,
                   symbol_table, global_environment, allocations, rooted, pc,
                   marked, gc, ret, issued, budget>>
    /\ UNCHANGED evalVars

(* Value::new_pair after on_allocation: allocate, set car and cdr, root    *)
(* the pair value; the Rooted<ConsPtr> of allocate_cons is dropped.        *)
NewPair(car, cdr) ==
    /\ Running /\ pc = "new_pair"
    /\ ~IsFull(cons_cells)
    /\ car \in Handles /\ cdr \in Handles /\ IsValue(car) /\ IsValue(cdr)
    /\ LET c == AllocIndex(cons_cells) IN
       /\ cons_cells' = [AllocArena(cons_cells) EXCEPT
                            !.pool[c] = [car |-> car, cdr |-> cdr]]
       /\ rooted' = rooted (+) SetToBag({Pair(c)})
       /\ roots' = RootedDropRoot(
                      RootedAddRoot(RootedAddRoot(roots, Pair(c)), Pair(c)),
                      Pair(c))
       /\ ret' = GcThing("Cons", c)
    /\ pc' = "idle"
    /\ NoCollection
    /\ UNCHANGED <<strings, environments, procedures, symbol_table,
                   global_environment, allocations, panicked, issued, budget>>
    /\ UNCHANGED evalVars

(* Value::new_string after on_allocation. *)
NewString(text) ==
    /\ Running /\ pc = "new_string"
    /\ ~IsFull(strings)
    /\ LET i == AllocIndex(strings) IN
       /\ strings' = [AllocArena(strings) EXCEPT !.pool[i] = text]
       /\ rooted' = rooted (+) SetToBag({StringVal(i)})
       /\ roots' = RootedDropRoot(
                      RootedAddRoot(RootedAddRoot(roots, StringPtr(i)),
                                    StringVal(i)),
                      StringPtr(i))
       /\ ret' = GcThing("String", i)
    /\ pc' = "idle"
    /\ NoCollection
    /\ UNCHANGED <<cons_cells, environments, procedures, symbol_table,
                   global_environment, allocations, panicked, issued, budget>>
    /\ UNCHANGED evalVars

(* Heap::get_or_create_symbol for a name the table lacks, after the        *)
(* on_allocation of its allocate_string.                                   *)
CreateSymbol(name) ==
    /\ Running /\ pc = "get_or_create_symbol"
    /\ name \notin DOMAIN symbol_table
    /\ ~IsFull(strings)
    /\ LET i == AllocIndex(strings) IN
       /\ strings' = [AllocArena(strings) EXCEPT !.pool[i] = name]
       /\ symbol_table' =
              [n \in DOMAIN symbol_table \cup {name} |->
                  IF n = name THEN i ELSE symbol_table[n]]
       /\ rooted' = rooted (+) SetToBag({Symbol(i)})
       /\ roots' = RootedDropRoot(
                      RootedAddRoot(RootedAddRoot(roots, StringPtr(i)),
                                    Symbol(i)),
                      StringPtr(i))
       /\ ret' = GcThing("String", i)
       /\ issued' = issued \cup {<<name, i>>}
    /\ pc' = "idle"
    /\ NoCollection
    /\ UNCHANGED <<cons_cells, environments, procedures, global_environment,
                   allocations, panicked, budget>>
    /\ UNCHANGED evalVars

(* Heap::get_or_create_symbol for a name the table holds: no allocation. *)
LookupSymbol(name) ==
    /\ Idle /\ CanRoot
    /\ name \in DOMAIN symbol_table
    /\ LET i == symbol_table[name] IN
       /\ rooted' = rooted (+) SetToBag({Symbol(i)})
       /\ roots' = RootedDropRoot(
                      RootedAddRoot(RootedAddRoot(roots, StringPtr(i)),
                                    Symbol(i)),
                      StringPtr(i))
       /\ issued' = issued \cup {<<name, i>>}
    /\ NoCollection /\ NoAllocation /\ ArenasUnchanged
    /\ Called
    /\ UNCHANGED <<symbol_table, global_environment, allocations, pc,
                   panicked>>
    /\ UNCHANGED evalVars

RECURSIVE SeqToBag(_)
SeqToBag(s) ==
    IF s = <<>> THEN EmptyBag ELSE SetToBag({Head(s)}) (+) SeqToBag(Tail(s))

RECURSIVE DropAll(_, _)
DropAll(r, s) ==
    IF s = <<>> THEN r ELSE DropAll(RootedDropRoot(r, Head(s)), Tail(s))

(* The argument vectors a caller can hand over: rooted values it owns. *)
ArgVectors ==
    {s \in UNION {[1 .. k -> ValueHandles] : k \in 0 .. MaxVals} :
        SeqToBag(s) \sqsubseteq rooted}

(* Activation::extend after the on_allocation of allocate_activation: the  *)
(* values vector is consumed, its Rooted values dropped.                   *)
ActivationExtend(parent, values) ==
    /\ Running /\ pc = "extend"
    /\ ~IsFull(environments)
    /\ parent \in ActivationHandles
    /\ values \in ArgVectors
    /\ LET e == AllocIndex(environments) IN
       /\ environments' =
              [AllocArena(environments) EXCEPT
                  !.pool[e] = [parent |-> <<parent.index>>,
                               vals |-> [k \in 1 .. Len(values) |->
                                           <<values[k]>>]]]
       /\ rooted' = (rooted (-) SeqToBag(values))
                    (+) SetToBag({ActivationPtr(e)})
       /\ roots' = DropAll(RootedAddRoot(roots, ActivationPtr(e)), values)
       /\ ret' = GcThing("Environment", e)
    /\ pc' = "idle"
    /\ NoCollection
    /\ UNCHANGED <<cons_cells, strings, procedures, symbol_table,
                   global_environment, allocations, panicked, issued, budget>>
    /\ UNCHANGED evalVars

(* Value::new_procedure after on_allocation. *)
NewProcedure(act) ==
    /\ Running /\ pc = "new_procedure"
    /\ ~IsFull(procedures)
    /\ act \in ActivationHandles
    /\ LET p == AllocIndex(procedures) IN
       /\ procedures' = [AllocArena(procedures) EXCEPT
                            !.pool[p] = [arity |-> 0,
                                         body |-> <<Quotation(EmptyList)>>,
                                         act |-> <<act.index>>]]
       /\ rooted' = rooted (+) SetToBag({ProcedureVal(p)})
       /\ roots' = RootedDropRoot(
                      RootedAddRoot(RootedAddRoot(roots, ProcedureVal(p)),
                                    ProcedureVal(p)),
                      ProcedureVal(p))
       /\ ret' = GcThing("Procedure", p)
    /\ pc' = "idle"
    /\ NoCollection
    /\ UNCHANGED <<cons_cells, strings, environments, symbol_table,
                   global_environment, allocations, panicked, issued, budget>>
    /\ UNCHANGED evalVars

----------------------------------------------------------------------------
(* Steps of the smart pointers and of the mutator, none of which           *)
(* allocates.                                                              *)

Quiet ==
    /\ NoCollection /\ NoAllocation
    /\ Called
    /\ UNCHANGED <<symbol_table, global_environment, allocations, pc, issued>>
    /\ UNCHANGED evalVars

(* Rooted::new(heap, Value::EmptyList) *)
RootImmediate ==
    /\ Idle /\ CanRoot
    /\ NewRooted(EmptyList)
    /\ Quiet /\ ArenasUnchanged /\ UNCHANGED panicked

(* Heap::global_env *)
GlobalEnv ==
    /\ Idle /\ CanRoot
    /\ NewRooted(ActivationPtr(global_environment))
    /\ Quiet /\ ArenasUnchanged /\ UNCHANGED panicked

(* Clone for Rooted<T> *)
Clone(h) ==
    /\ Idle /\ CanRoot
    /\ h \in Handles
    /\ NewRooted(h)
    /\ Quiet /\ ArenasUnchanged /\ UNCHANGED panicked

(* Drop for Rooted<T>; Heap::drop_root panics on a thing that is no root. *)
DropRooted(h) ==
    /\ Idle
    /\ h \in Handles
    /\ IF RootedDropRootFails(roots, h)
       THEN /\ panicked' = "Should never drop_root a gc thing that isn't rooted"
            /\ UNCHANGED <<roots, rooted>>
       ELSE /\ roots' = RootedDropRoot(roots, h)
            /\ rooted' = rooted (-) SetToBag({h})
            /\ UNCHANGED panicked
    /\ Quiet /\ ArenasUnchanged

(* Rooted::emplace(rhs): the smart pointer h gets the referent rhs. *)
Emplace(h, rhs) ==
    /\ Idle
    /\ h \in Handles /\ rhs \in Handles
    /\ IsValue(h) = IsValue(rhs)
    /\ h # rhs
    /\ IF RootedDropRootFails(roots, h)
       THEN /\ panicked' = "Should never drop_root a gc thing that isn't rooted"
            /\ UNCHANGED <<roots, rooted>>
       ELSE /\ roots' = RootedAddRoot(RootedDropRoot(roots, h), rhs)
            /\ rooted' = (rooted (-) SetToBag({h})) (+) SetToBag({rhs})
            /\ UNCHANGED panicked
    /\ Quiet /\ ArenasUnchanged

PairHandles == {h \in Handles : h.tag = "Pair"}

(* Cons::cdr of a rooted pair: the field, rooted. *)
Cdr(h) ==
    /\ Idle /\ CanRoot
    /\ h \in PairHandles
    /\ NewRooted(cons_cells.pool[h.index].cdr)
    /\ Quiet /\ ArenasUnchanged /\ UNCHANGED panicked

(* Cons::set_cdr on a rooted pair with a rooted value. *)
SetCdr(h, v) ==
    /\ Idle
    /\ h \in PairHandles /\ v \in ValueHandles
    /\ cons_cells' = [cons_cells EXCEPT !.pool[h.index].cdr = v]
    /\ Quiet
    /\ UNCHANGED <<strings, environments, procedures, roots, rooted, panicked>>

(* Activation::fill_to(n) *)
FillTo(vals, n) ==
    vals \o [k \in 1 .. (n + 1 - Len(vals)) |-> <<>>]

(* Activation::define(j, val) on a rooted activation. *)
ActivationDefine(h, j, v) ==
    /\ Idle
    /\ h \in ActivationHandles /\ v \in ValueHandles
    /\ j \in 0 .. MaxVals - 1
    /\ environments' =
          [environments EXCEPT !.pool[h.index].vals =
              [FillTo(@, j) EXCEPT ![j + 1] = <<v>>]]
    /\ Quiet
    /\ UNCHANGED <<cons_cells, strings, procedures, roots, rooted, panicked>>

AllocatingOps ==
    {"new_pair", "get_or_create_symbol", "extend", "new_procedure"}

Slots == 0 .. MaxVals - 1

(* The client allocates, builds a graph over the four arenas, drops its   *)
(* smart pointers and collects.                                            *)
Next ==
    \/ CollectGarbage
    \/ \E op \in AllocatingOps : OnAllocation(op)
    \/ OutOfMemory
    \/ \E car, cdr \in Handles : NewPair(car, cdr)
    \/ \E name \in Names : CreateSymbol(name)
    \/ \E name \in Names : LookupSymbol(name)
    \/ \E parent \in Handles : \E values \in ArgVectors :
          ActivationExtend(parent, values)
    \/ \E act \in Handles : NewProcedure(act)
    \/ RootImmediate
    \/ GlobalEnv
    \/ \E h \in Handles : Clone(h)
    \/ \E h \in Handles : DropRooted(h)
    \/ \E h, rhs \in Handles : Emplace(h, rhs)
    \/ \E h \in Handles : Cdr(h)
    \/ \E h, v \in Handles : SetCdr(h, v)
    \/ \E h, v \in Handles : \E j \in Slots : ActivationDefine(h, j, v)

Spec == Init /\ [][Next]_vars

----------------------------------------------------------------------------
(* A second client, to build GC pressure: its string arena is too large to *)
(* fill before the pressure counter passes MAX_GC_PRESSURE. It allocates   *)
(* empty strings, one smart pointer to a string at a time, and procedures, *)
(* which fill their small arena, as long as it likes.                      *)

StringHandles == {h \in Handles : h.tag = "String"}

AllocateString == StringHandles = {} /\ OnAllocation("new_string")

AllocateProcedure == StringHandles = {} /\ OnAllocation("new_procedure")

InitPressure ==
    /\ HeapInit(ConsCapacity, MAX_GC_PRESSURE + 2, EnvironmentsCapacity,
                ProceduresCapacity)
    /\ ClientInit
    /\ budget = -1
    /\ EvalIdle

NextPressure ==
    \/ AllocateString
    \/ NewString(DefaultString)
    \/ AllocateProcedure
    \/ \E act \in Handles : NewProcedure(act)
    \/ GlobalEnv
    \/ \E h \in Handles : DropRooted(h)

SpecPressure == InitPressure /\ [][NextPressure]_vars

----------------------------------------------------------------------------
(* The static Environment (environment.rs): one map from names to slots    *)
(* for each lexical block that is open, the global block first.            *)

(* Environment::new *)
EnvironmentNew == << <<>> >>

(* The (i, j) a definition or a lookup returns, with the environment. *)
Coordinates(env, i, j) == [env |-> env, i |-> i, j |-> j]

(* The number of names a block binds: HashMap::len. *)
BlockLen(bindings) == Cardinality(DOMAIN bindings)

(* Faulty variant: i counts the blocks down to the global one, as in       *)
(* define_global.                                                          *)
EnvironmentDefineDeep(env, name) ==
    LET youngest == env[Len(env)] IN
    IF name \in DOMAIN youngest
    THEN Coordinates(env, Len(env) - 1, youngest[name])
    ELSE LET n == BlockLen(youngest)
         IN  Coordinates([env EXCEPT ![Len(env)] = (name :> n) @@ youngest],
                         Len(env) - 1, n)

(* Faulty variant: a name always gets a new slot, also when the youngest   *)
(* block has it.                                                           *)
EnvironmentDefineFresh(env, name) ==
    LET youngest == env[Len(env)]
        n == BlockLen(youngest)
    IN  Coordinates([env EXCEPT ![Len(env)] = (name :> n) @@ youngest], 0, n)

(* Environment::define: in the youngest block. *)
EnvironmentDefine(env, name) ==
    LET youngest == env[Len(env)] IN
    IF name \in DOMAIN youngest
    THEN Coordinates(env, 0, youngest[name])
    ELSE LET n == BlockLen(youngest)
         IN  Coordinates([env EXCEPT ![Len(env)] = (name :> n) @@ youngest],
                         0, n)

(* Faulty variant: the new slot is always reported as the block's first. *)
EnvironmentDefineGlobalFirst(env, name) ==
    Coordinates([env EXCEPT ![1] = (name :> BlockLen(env[1])) @@ env[1]],
                Len(env) - 1, 0)

(* Environment::define_global: in the oldest block. *)
EnvironmentDefineGlobal(env, name) ==
    LET n == BlockLen(env[1])
    IN  Coordinates([env EXCEPT ![1] = (name :> n) @@ env[1]],
                    Len(env) - 1, n)

(* Environment::extend: a new block with the names defined in order. *)
RECURSIVE DefineAll(_, _)
DefineAll(env, names) ==
    IF names = <<>> THEN env
    ELSE DefineAll(EnvironmentDefine(env, Head(names)).env, Tail(names))

EnvironmentExtend(env, names) == DefineAll(Append(env, <<>>), names)

(* Environment::pop *)
EnvironmentPop(env) == SubSeq(env, 1, Len(env) - 1)

(* Faulty variant: the blocks are scanned from the oldest. *)
EnvironmentLookupOldest(env, name) ==
    LET found == {k \in 1 .. Len(env) : name \in DOMAIN env[k]} IN
    IF found = {} THEN <<>>
    ELSE LET k == CHOOSE x \in found : \A y \in found : x <= y
         IN  <<[i |-> Len(env) - k, j |-> env[k][name]]>>

(* Environment::lookup: <<>> for None, <<[i, j]>> for Some((i, j)); the    *)
(* blocks are scanned from the youngest, i counts the blocks passed.       *)
EnvironmentLookup(env, name) ==
    LET found == {k \in 1 .. Len(env) : name \in DOMAIN env[k]} IN
    IF found = {} THEN <<>>
    ELSE LET k == CHOOSE x \in found : \A y \in found : y <= x
         IN  <<[i |-> Len(env) - k, j |-> env[k][name]]>>

----------------------------------------------------------------------------
(* Syntactic analysis (eval.rs analyze): from the form that was read to    *)
(* its Meaning, with the Environment threaded through.                     *)

(* The forms the reader hands over: a symbol, any other value, or a proper *)
(* list of forms. A Datum stands for a literal by its Value; for a list    *)
(* that is quoted this is the pointer to its first pair.                   *)
SymbolForm(name) == [form |-> "symbol", name |-> name]
Datum(v) == [form |-> "datum", val |-> v]
List(items) == [form |-> "list", items |-> items]

(* The Value of a form. *)
FormValue(form) ==
    CASE form.form = "symbol" -> Symbol(symbol_table[form.name])
      [] form.form = "datum"  -> form.val
      [] form.form = "list" /\ form.items = <<>> -> EmptyList

(* Value::is_atom: everything but a pair. *)
IsAtom(form) == form.form # "list" \/ form.items = <<>>

(* is_auto_quoting *)
IsAutoQuoting(form) ==
    /\ form.form = "datum"
    /\ form.val.tag \notin {"EmptyList", "Pair", "Symbol"}

(* History labels, not part of the MeaningData: the name a coordinate was  *)
(* emitted for, and on the body of a lambda the names its block binds.     *)
Named(m, name) == m @@ [name |-> name]
Blocked(m, params, names) ==
    m @@ [block |-> [params |-> params, names |-> names]]

(* The names that the defines of a block bind, nested lambdas and quoted   *)
(* forms left aside.                                                       *)
RECURSIVE DefinedIn(_)
DefinedIn(form) ==
    IF IsAtom(form) THEN {}
    ELSE LET items == form.items IN
         IF items[1] \in {SymbolForm("quote"), SymbolForm("lambda")} THEN {}
         ELSE (IF /\ items[1] = SymbolForm("define")
                  /\ Len(items) = 3
                  /\ items[2].form = "symbol"
               THEN {items[2].name} ELSE {})
              \cup UNION {DefinedIn(items[k]) : k \in 1 .. Len(items)}

(* MeaningResult with the environment analysis left behind: Ok(meaning) or *)
(* Err(message).                                                           *)
Analyzed(env, m) == [env |-> env, m |-> <<m>>, err |-> ""]
StaticError(env, msg) == [env |-> env, m |-> <<>>, err |-> msg]

RECURSIVE Analyze(_, _)
RECURSIVE MakeMeaningSequence(_, _)
RECURSIVE MakeMeaningVector(_, _, _)

(* analyze_atom *)
AnalyzeAtom(env, form) ==
    IF IsAutoQuoting(form) THEN Analyzed(env, Quotation(form.val))
    ELSE IF form.form = "symbol"
    THEN LET found == EnvironmentLookup(env, form.name) IN
         IF found # <<>>
         THEN Analyzed(env, Named(Reference(found[1].i, found[1].j),
                                  form.name))
         ELSE LET c == EnvironmentDefineGlobal(env, form.name)
              IN  Analyzed(c.env, Named(Reference(c.i, c.j), form.name))
    ELSE StaticError(env, "Static error: Cannot evaluate")

(* Faulty variant: what follows the quoted part is ignored. *)
AnalyzeQuotedLenient(env, form) ==
    IF Len(form.items) >= 2
    THEN Analyzed(env, Quotation(FormValue(form.items[2])))
    ELSE StaticError(env,
                     "Static error: Wrong number of parts in quoted form")

(* analyze_quoted *)
AnalyzeQuoted(env, form) ==
    IF Len(form.items) = 2
    THEN Analyzed(env, Quotation(FormValue(form.items[2])))
    ELSE StaticError(env,
                     "Static error: Wrong number of parts in quoted form")

(* analyze_definition: the value is analyzed before the name is defined. *)
AnalyzeDefinition(env, form) ==
    IF Len(form.items) # 3
    THEN StaticError(env, "Static error: improperly formed definition")
    ELSE IF form.items[2].form # "symbol"
    THEN StaticError(env, "Static error: can only define symbols")
    ELSE LET value == Analyze(env, form.items[3]) IN
         IF value.m = <<>> THEN value
         ELSE LET c == EnvironmentDefine(value.env, form.items[2].name)
              IN  Analyzed(c.env,
                           Named(Definition(c.i, c.j, value.m[1]),
                                 form.items[2].name))

(* analyze_set *)
AnalyzeSet(env, form) ==
    IF Len(form.items) # 3
    THEN StaticError(env, "Static error: improperly formed set! expression")
    ELSE IF form.items[2].form # "symbol"
    THEN StaticError(env, "Static error: can only set! symbols")
    ELSE LET value == Analyze(env, form.items[3]) IN
         IF value.m = <<>> THEN value
         ELSE LET name == form.items[2].name
                  found == EnvironmentLookup(value.env, name)
              IN  IF found # <<>>
                  THEN Analyzed(value.env,
                                Named(SetVariable(found[1].i, found[1].j,
                                                  value.m[1]), name))
                  ELSE LET c == EnvironmentDefineGlobal(value.env, name)
                       IN  Analyzed(c.env,
                                    Named(SetVariable(c.i, c.j, value.m[1]),
                                          name))

(* Heap::with_extended_env(names, f): the environment is extended with the *)
(* block, f runs, and the block is popped.                                 *)
WithExtendedEnv(env, names, body) ==
    LET result == MakeMeaningSequence(EnvironmentExtend(env, names), body)
    IN  [result EXCEPT !.env = EnvironmentPop(@)]

(* analyze_lambda *)
AnalyzeLambda(env, form) ==
    IF Len(form.items) < 3
    THEN StaticError(env, "Lambda is missing body")
    ELSE LET params_form == form.items[2]
             body == SubSeq(form.items, 3, Len(form.items))
         IN  IF params_form.form # "list"
             THEN StaticError(env, "Bad lambda parameters")
             ELSE IF \E k \in 1 .. Len(params_form.items) :
                        params_form.items[k].form # "symbol"
             THEN StaticError(env, "Can only define symbol parameters")
             ELSE LET param_names ==
                          [k \in 1 .. Len(params_form.items) |->
                              params_form.items[k].name]
                      result == WithExtendedEnv(env, param_names, body)
                  IN  IF result.m = <<>> THEN result
                      ELSE Analyzed(
                              result.env,
                              Lambda(Len(param_names),
                                     Blocked(result.m[1], param_names,
                                             SeqToSet(param_names) \cup
                                             UNION {DefinedIn(body[k]) :
                                                     k \in 1 .. Len(body)})))

(* analyze_conditional *)
AnalyzeConditional(env, form) ==
    IF Len(form.items) # 4
    THEN StaticError(env, "Static error: improperly formed if expression")
    ELSE LET condition == Analyze(env, form.items[2]) IN
         IF condition.m = <<>> THEN condition
         ELSE LET consequent == Analyze(condition.env, form.items[3]) IN
         IF consequent.m = <<>> THEN consequent
         ELSE LET alternative == Analyze(consequent.env, form.items[4]) IN
         IF alternative.m = <<>> THEN alternative
         ELSE Analyzed(alternative.env,
                       Conditional(condition.m[1], consequent.m[1],
                                   alternative.m[1]))

(* Faulty variant: the rest of the forms comes before the first. *)
MakeMeaningSequenceReversed(env, forms_left) ==
    IF forms_left = <<>>
    THEN StaticError(env, "Static error: improperly formed sequence")
    ELSE LET first == Analyze(env, Head(forms_left)) IN
         IF first.m = <<>> THEN first
         ELSE IF Tail(forms_left) = <<>> THEN first
         ELSE LET rest == MakeMeaningSequence(first.env, Tail(forms_left))
              IN  IF rest.m = <<>> THEN rest
                  ELSE Analyzed(rest.env, Sequence(rest.m[1], first.m[1]))

(* make_meaning_sequence, on the forms that are left. *)
MakeMeaningSequence(env, forms_left) ==
    IF forms_left = <<>>
    THEN StaticError(env, "Static error: improperly formed sequence")
    ELSE LET first == Analyze(env, Head(forms_left)) IN
         IF first.m = <<>> THEN first
         ELSE IF Tail(forms_left) = <<>> THEN first
         ELSE LET rest == MakeMeaningSequence(first.env, Tail(forms_left))
              IN  IF rest.m = <<>> THEN rest
                  ELSE Analyzed(rest.env, Sequence(first.m[1], rest.m[1]))

(* analyze_sequence *)
AnalyzeSequence(env, form) == MakeMeaningSequence(env, Tail(form.items))

(* make_meaning_vector: m holds the vector of meanings. *)
MakeMeaningVector(env, forms_left, meanings) ==
    IF forms_left = <<>> THEN Analyzed(env, meanings)
    ELSE LET car == Analyze(env, Head(forms_left)) IN
         IF car.m = <<>> THEN car
         ELSE MakeMeaningVector(car.env, Tail(forms_left),
                                Append(meanings, car.m[1]))

(* analyze_invocation *)
AnalyzeInvocation(env, form) ==
    LET proc_meaning == Analyze(env, Head(form.items)) IN
    IF proc_meaning.m = <<>> THEN proc_meaning
    ELSE LET params_meaning ==
                 MakeMeaningVector(proc_meaning.env, Tail(form.items), <<>>)
         IN  IF params_meaning.m = <<>> THEN params_meaning
             ELSE Analyzed(params_meaning.env,
                           Invocation(proc_meaning.m[1], params_meaning.m[1]))

(* analyze *)
Analyze(env, form) ==
    IF IsAtom(form) THEN AnalyzeAtom(env, form)
    ELSE LET car == Head(form.items) IN
         CASE car = SymbolForm("quote")  -> AnalyzeQuoted(env, form)
           [] car = SymbolForm("define") -> AnalyzeDefinition(env, form)
           [] car = SymbolForm("set!")   -> AnalyzeSet(env, form)
           [] car = SymbolForm("lambda") -> AnalyzeLambda(env, form)
           [] car = SymbolForm("if")     -> AnalyzeConditional(env, form)
           [] car = SymbolForm("begin")  -> AnalyzeSequence(env, form)
           [] OTHER                      -> AnalyzeInvocation(env, form)

----------------------------------------------------------------------------
(* The evaluator: Meaning::evaluate, the evaluator functions and           *)
(* Trampoline::run, as steps over the calls that are on the host stack.    *)
(* A step either makes a call (ctl is the call) or returns (ctl is the     *)
(* result). The evaluator functions of leaves, apply_invocation, the       *)
(* primitives and the heap operations they call run inside one step.       *)

(* primitives.rs define_primitives: the slots of the global activation. *)
PrimitiveNames ==
    <<"cons", "car", "set-car!", "cdr", "set-cdr!", "list", "length",
      "apply", "error", "print", "read", "not", "null?", "pair?", "atom?",
      "eq?", "symbol?", "number?", "string?", "=", ">", "<", "+", "-", "/",
      "*">>

PrimitiveSlot(name) ==
    (CHOOSE k \in 1 .. Len(PrimitiveNames) : PrimitiveNames[k] = name) - 1

Arithmetic == {"=", ">", "<", "+", "-", "/", "*"}

(* Meaning::evaluate(m, act) is being called. *)
Call(m, act) == Control("evaluate", <<m>>, act, EmptyList, "")
(* Meaning::evaluate_to_thunk(m, act) is being called. *)
Dispatch(m, act) == Control("evaluate_to_thunk", <<m>>, act, EmptyList, "")
(* Ok(Trampoline::Value(v)) and Ok(Trampoline::Thunk(act, m)) *)
TrampolineValue(v) == Control("Value", <<>>, 0, v, "")
TrampolineThunk(act, m) == Control("Thunk", <<m>>, act, EmptyList, "")
(* SchemeResult: Ok(v) and Err(msg) *)
Ok(v) == Control("Ok", <<>>, 0, v, "")
Err(msg) == Control("Err", <<>>, 0, EmptyList, msg)

(* A call on the host stack: the function, its meaning and activation, and *)
(* the values it has evaluated so far.                                     *)
Frame(fn, m, act, vals) == [fn |-> fn, m |-> m, act |-> act, vals |-> vals]

Top == stack[Len(stack)]
Pop == SubSeq(stack, 1, Len(stack) - 1)
Push(f) == Append(stack, f)

Entering(op) == ctl.mode = "evaluate_to_thunk" /\ ctl.m[1].op = op
Returning(fn, mode) == stack # <<>> /\ Top.fn = fn /\ ctl.mode = mode

(* What evaluation leaves alone; a fetch or an update may panic. *)
FetchFrame ==
    UNCHANGED <<cons_cells, roots, global_environment, rooted, pc, marked, gc,
                ret, issued, budget, prog, environment>>

EvalFrame == FetchFrame /\ UNCHANGED panicked

(* The history of the evaluation: evaluate_to_thunk was called on m in an  *)
(* activation, the call of Meaning::evaluate on m returned Ok(val) or      *)
(* Err(err), evaluate_lambda made the procedure val of m in an activation, *)
(* apply_invocation was called for the invocation m.                       *)
Event(event, m, act, val, err) ==
    [event |-> event, m |-> m, act |-> act, val |-> val, err |-> err]
Logged(event, m) ==
    log' = Append(log, Event(event, m, ctl.act, ctl.val, ctl.err))

(* on_allocation where no collection is due: the counter goes up by one.   *)
(* The arenas of the evaluator's heap are sized so that none fills while a *)
(* program runs.                                                           *)
NoCollectionDue == ~AnyArenaIsFull /\ ~IsTooMuchPressure(allocations + 1)

RECURSIVE FetchLast(_, _, _, _), Fetch(_, _, _, _)

(* Faulty variant: an index beyond the slots is taken for the last slot. *)
FetchLast(pool, a, i, j) ==
    IF i = 0
    THEN IF pool[a].vals = <<>> THEN <<>>
         ELSE IF j >= Len(pool[a].vals) THEN pool[a].vals[Len(pool[a].vals)]
         ELSE pool[a].vals[j + 1]
    ELSE FetchLast(pool, pool[a].parent[1], i - 1, j)

(* Activation::fetch(heap, i, j): <<>> for Err(()), <<v>> for Ok(v). *)
Fetch(pool, a, i, j) ==
    IF i = 0
    THEN IF j >= Len(pool[a].vals) THEN <<>> ELSE pool[a].vals[j + 1]
    ELSE Fetch(pool, pool[a].parent[1], i - 1, j)

(* The expect of Activation::fetch and Activation::update: there is no     *)
(* parent to go to while i is not yet 0.                                   *)
RECURSIVE OutOfBounds(_, _, _)
OutOfBounds(pool, a, i) ==
    /\ i # 0
    /\ \/ pool[a].parent = <<>>
       \/ OutOfBounds(pool, pool[a].parent[1], i - 1)

(* Faulty variant: an unbound slot is written like a bound one. *)
RECURSIVE UpdateUnbound(_, _, _, _, _)
UpdateUnbound(pool, a, i, j, val) ==
    IF i = 0
    THEN IF j >= Len(pool[a].vals) THEN <<>>
         ELSE <<[pool EXCEPT ![a].vals[j + 1] = <<val>>]>>
    ELSE UpdateUnbound(pool, pool[a].parent[1], i - 1, j, val)

(* Activation::update(i, j, val): <<>> for Err(()), else the pool with the *)
(* slot written.                                                           *)
RECURSIVE Update(_, _, _, _, _)
Update(pool, a, i, j, val) ==
    IF i = 0
    THEN IF j >= Len(pool[a].vals) \/ pool[a].vals[j + 1] = <<>> THEN <<>>
         ELSE <<[pool EXCEPT ![a].vals[j + 1] = <<val>>]>>
    ELSE Update(pool, pool[a].parent[1], i - 1, j, val)

(* Value::to_integer *)
ToInteger(v) == IF v.tag = "Integer" THEN <<v.index>> ELSE <<>>

(* The arithmetic primitives, on the argument vector; the messages of the  *)
(* errors without the name of the primitive.                               *)
PrimitiveCall(name, args) ==
    IF Len(args) # 2
    THEN Err("Error: bad arguments")
    ELSE IF ToInteger(args[1]) = <<>> \/ ToInteger(args[2]) = <<>>
    THEN Err("Error: cannot use with non-numbers")
    ELSE LET first == args[1].index
             second == args[2].index
         IN  CASE name = "=" -> TrampolineValue(Boolean(first = second))
               [] name = ">" -> TrampolineValue(Boolean(first > second))
               [] name = "<" -> TrampolineValue(Boolean(first < second))
               [] name = "+" -> TrampolineValue(Integer(first + second))
               [] name = "-" -> TrampolineValue(Integer(first - second))
               [] name = "*" -> TrampolineValue(Integer(first * second))
               [] name = "/" ->
                     IF second = 0 THEN Err("Error: divide by zero")
                     ELSE TrampolineValue(Integer(first \div second))

(* eval.rs evaluate(heap, form), as evaluate_file calls it for each form   *)
(* until one fails: the meaning of the form is evaluated in the global     *)
(* activation.                                                             *)
EvaluateForm ==
    /\ stack = <<>>
    /\ ctl.mode \in {"idle", "Ok"}
    /\ forms # <<>>
    /\ ctl' = Call(Head(forms), global_environment)
    /\ forms' = Tail(forms)
    /\ UNCHANGED <<stack, strings, symbol_table, environments, procedures,
                   allocations, log, scope>>
    /\ EvalFrame

(* Meaning::evaluate: evaluate_to_thunk, then Trampoline::run on what it   *)
(* returned. run returns a Value at once and loops on a Thunk.             *)
MeaningEvaluate ==
    /\ \/ /\ ctl.mode = "evaluate"
          /\ stack' = Push(Frame("evaluate", ctl.m[1], ctl.act, <<>>))
          /\ ctl' = Dispatch(ctl.m[1], ctl.act)
          /\ Logged("evaluate_to_thunk", ctl.m[1])
       \/ /\ Returning("evaluate", "Value")
          /\ stack' = Pop
          /\ ctl' = Ok(ctl.val)
          /\ Logged("Ok", Top.m)
       \/ /\ Returning("evaluate", "Thunk")
          /\ stack' = Push(Frame("run", ctl.m[1], ctl.act, <<>>))
          /\ ctl' = Dispatch(ctl.m[1], ctl.act)
          /\ Logged("evaluate_to_thunk", ctl.m[1])
       \/ /\ Returning("evaluate", "Ok")
          /\ stack' = Pop
          /\ ctl' = ctl
          /\ Logged("Ok", Top.m)
    /\ UNCHANGED <<forms, strings, symbol_table, environments, procedures,
                   allocations, scope>>
    /\ EvalFrame

(* The loop of Trampoline::run: a Value ends it, a Thunk is the next       *)
(* evaluate_to_thunk of the same call of run.                              *)
TrampolineRun ==
    /\ \/ /\ Returning("run", "Value")
          /\ stack' = Pop
          /\ ctl' = Ok(ctl.val)
          /\ UNCHANGED log
       \/ /\ Returning("run", "Thunk")
          /\ stack' = Append(Pop, Frame("run", ctl.m[1], ctl.act, <<>>))
          /\ ctl' = Dispatch(ctl.m[1], ctl.act)
          /\ Logged("evaluate_to_thunk", ctl.m[1])
    /\ UNCHANGED <<forms, strings, symbol_table, environments, procedures,
                   allocations, scope>>
    /\ EvalFrame

(* try!: an Err ends the call that receives it and goes to its caller. *)
TryReturn ==
    /\ stack # <<>>
    /\ ctl.mode = "Err"
    /\ stack' = Pop
    /\ IF Top.fn = "evaluate" THEN Logged("Err", Top.m) ELSE UNCHANGED log
    /\ UNCHANGED <<ctl, forms, strings, symbol_table, environments,
                   procedures, allocations, scope>>
    /\ EvalFrame

EvaluateQuotation ==
    /\ Entering("Quotation")
    /\ ctl' = TrampolineValue(ctl.m[1].val)
    /\ UNCHANGED <<stack, forms, strings, symbol_table, environments,
                   procedures, allocations, log, scope>>
    /\ EvalFrame

(* evaluate_reference: the fetch panics, fails or yields the value. *)
EvaluateReference ==
    /\ Entering("Reference")
    /\ IF OutOfBounds(environments.pool, ctl.act, ctl.m[1].i)
       THEN /\ panicked' = "Activation::fetch: i out of bounds"
            /\ ctl' = Control("panic", <<>>, 0, EmptyList, "")
       ELSE /\ LET val == Fetch(environments.pool, ctl.act, ctl.m[1].i,
                                ctl.m[1].j)
               IN  ctl' =
                     IF val = <<>>
                     THEN Err("Reference to variable that hasn't been defined")
                     ELSE TrampolineValue(val[1])
            /\ UNCHANGED panicked
    /\ UNCHANGED <<stack, forms, strings, symbol_table, environments,
                   procedures, allocations, log, scope>>
    /\ FetchFrame

(* Heap::get_or_create_symbol(name), as the evaluator calls it: the string *)
(* pointer of the symbol, and the change to the heap.                      *)
SymbolIndex(name) ==
    IF name \in DOMAIN symbol_table THEN symbol_table[name]
    ELSE AllocIndex(strings)

Intern(name) ==
    IF name \in DOMAIN symbol_table
    THEN UNCHANGED <<strings, symbol_table, allocations>>
    ELSE /\ NoCollectionDue
         /\ allocations' = allocations + 1
         /\ strings' = [AllocArena(strings) EXCEPT
                           !.pool[AllocIndex(strings)] = name]
         /\ symbol_table' =
                [n \in DOMAIN symbol_table \cup {name} |->
                    IF n = name THEN AllocIndex(strings) ELSE symbol_table[n]]

(* Faulty variant: the value is pushed behind the slots the activation has *)
(* instead of being stored in slot j.                                      *)
EvaluateDefinitionPushing ==
    /\ \/ /\ Entering("Definition")
          /\ stack' = Push(Frame("evaluate_definition", ctl.m[1], ctl.act,
                                 <<>>))
          /\ ctl' = Call(ctl.m[1].value, ctl.act)
          /\ UNCHANGED <<strings, symbol_table, environments, allocations,
                         scope>>
       \/ /\ Returning("evaluate_definition", "Ok")
          /\ stack' = Pop
          /\ environments' =
                [environments EXCEPT !.pool[Top.act].vals =
                    Append(@, <<ctl.val>>)]
          /\ Intern("unspecified")
          /\ ctl' = TrampolineValue(Symbol(SymbolIndex("unspecified")))
          /\ scope' = IF "name" \in DOMAIN Top.m /\ Top.act \in DOMAIN scope
                      THEN [scope EXCEPT ![Top.act].slots =
                                (Top.m.name :> Top.m.j) @@ @]
                      ELSE scope
    /\ UNCHANGED <<forms, procedures, log>>
    /\ EvalFrame

(* evaluate_definition: the value is evaluated in a nested call, defined   *)
(* in the activation, and the unspecified symbol is the result.            *)
EvaluateDefinition ==
    /\ \/ /\ Entering("Definition")
          /\ stack' = Push(Frame("evaluate_definition", ctl.m[1], ctl.act,
                                 <<>>))
          /\ ctl' = Call(ctl.m[1].value, ctl.act)
          /\ UNCHANGED <<strings, symbol_table, environments, allocations,
                         scope>>
       \/ /\ Returning("evaluate_definition", "Ok")
          /\ stack' = Pop
          /\ environments' =
                [environments EXCEPT !.pool[Top.act].vals =
                    [FillTo(@, Top.m.j) EXCEPT ![Top.m.j + 1] = <<ctl.val>>]]
          /\ Intern("unspecified")
          /\ ctl' = TrampolineValue(Symbol(SymbolIndex("unspecified")))
          /\ scope' = IF "name" \in DOMAIN Top.m /\ Top.act \in DOMAIN scope
                      THEN [scope EXCEPT ![Top.act].slots =
                                (Top.m.name :> Top.m.j) @@ @]
                      ELSE scope
    /\ UNCHANGED <<forms, procedures, log>>
    /\ EvalFrame

(* evaluate_set_variable: the value is evaluated in a nested call, then    *)
(* the update panics, fails or writes the slot; the unspecified symbol is  *)
(* the result.                                                             *)
EvaluateSetVariable ==
    /\ \/ /\ Entering("SetVariable")
          /\ stack' = Push(Frame("evaluate_set_variable", ctl.m[1], ctl.act,
                                 <<>>))
          /\ ctl' = Call(ctl.m[1].value, ctl.act)
          /\ UNCHANGED <<strings, symbol_table, environments, allocations,
                         panicked>>
       \/ /\ Returning("evaluate_set_variable", "Ok")
          /\ stack' = Pop
          /\ IF OutOfBounds(environments.pool, Top.act, Top.m.i)
             THEN /\ panicked' = "Activation::update: i out of bounds"
                  /\ ctl' = Control("panic", <<>>, 0, EmptyList, "")
                  /\ UNCHANGED <<strings, symbol_table, environments,
                                 allocations>>
             ELSE LET updated == Update(environments.pool, Top.act, Top.m.i,
                                        Top.m.j, ctl.val)
                  IN  /\ UNCHANGED panicked
                      /\ IF updated = <<>>
                         THEN /\ ctl' = Err("Cannot set variable before it has been defined")
                              /\ UNCHANGED <<strings, symbol_table,
                                             environments, allocations>>
                         ELSE /\ environments' =
                                    [environments EXCEPT !.pool = updated[1]]
                              /\ Intern("unspecified")
                              /\ ctl' = TrampolineValue(
                                            Symbol(SymbolIndex("unspecified")))
    /\ UNCHANGED <<forms, procedures, log, scope>>
    /\ FetchFrame

(* Faulty variant: the empty list and zero count as false too. *)
IsFalseOrNothing(val) == val \in {Boolean(FALSE), EmptyList, Integer(0)}

(* *val == Value::new_boolean(false), the test of evaluate_conditional. *)
IsFalse(val) == val = Boolean(FALSE)

(* Faulty variant: the branch is evaluated in a nested call and its value  *)
(* is the result.                                                          *)
EvaluateConditionalNested ==
    /\ \/ /\ Entering("Conditional")
          /\ stack' = Push(Frame("evaluate_conditional", ctl.m[1], ctl.act,
                                 <<>>))
          /\ ctl' = Call(ctl.m[1].condition, ctl.act)
       \/ /\ Returning("evaluate_conditional", "Ok")
          /\ Top.vals = <<>>
          /\ stack' = Append(Pop, [Top EXCEPT !.vals = <<ctl.val>>])
          /\ ctl' = Call(IF ctl.val = Boolean(FALSE)
                         THEN Top.m.alternative
                         ELSE Top.m.consequent,
                         Top.act)
       \/ /\ Returning("evaluate_conditional", "Ok")
          /\ Top.vals # <<>>
          /\ stack' = Pop
          /\ ctl' = TrampolineValue(ctl.val)
    /\ UNCHANGED <<forms, strings, symbol_table, environments, procedures,
                   allocations, log, scope>>
    /\ EvalFrame

(* evaluate_conditional: the condition is evaluated in a nested call, the  *)
(* branch it selects is returned as a Thunk.                               *)
EvaluateConditional ==
    /\ \/ /\ Entering("Conditional")
          /\ stack' = Push(Frame("evaluate_conditional", ctl.m[1], ctl.act,
                                 <<>>))
          /\ ctl' = Call(ctl.m[1].condition, ctl.act)
       \/ /\ Returning("evaluate_conditional", "Ok")
          /\ stack' = Pop
          /\ ctl' = TrampolineThunk(Top.act,
                                    IF IsFalse(ctl.val)
                                    THEN Top.m.alternative
                                    ELSE Top.m.consequent)
    /\ UNCHANGED <<forms, strings, symbol_table, environments, procedures,
                   allocations, log, scope>>
    /\ EvalFrame

(* evaluate_sequence: the first is evaluated in a nested call, the second  *)
(* is returned as a Thunk.                                                 *)
EvaluateSequence ==
    /\ \/ /\ Entering("Sequence")
          /\ stack' = Push(Frame("evaluate_sequence", ctl.m[1], ctl.act,
                                 <<>>))
          /\ ctl' = Call(ctl.m[1].first, ctl.act)
       \/ /\ Returning("evaluate_sequence", "Ok")
          /\ stack' = Pop
          /\ ctl' = TrampolineThunk(Top.act, Top.m.second)
    /\ UNCHANGED <<forms, strings, symbol_table, environments, procedures,
                   allocations, log, scope>>
    /\ EvalFrame

(* Faulty variant: the procedure goes into any free slot of the arena. *)
EvaluateLambdaAnySlot ==
    /\ Entering("Lambda")
    /\ NoCollectionDue
    /\ allocations' = allocations + 1
    /\ \E p \in SeqToSet(procedures.free) :
       /\ procedures' = [pool |-> [procedures.pool EXCEPT
                                     ![p] = [arity |-> ctl.m[1].arity,
                                             body |-> <<ctl.m[1].body>>,
                                             act |-> <<ctl.act>>]],
                         free |-> SelectSeq(procedures.free,
                                            LAMBDA f : f # p)]
       /\ ctl' = TrampolineValue(ProcedureVal(p))
       /\ log' = Append(log, Event("new_procedure", ctl.m[1], ctl.act,
                                   ProcedureVal(p), ""))
    /\ UNCHANGED <<stack, forms, strings, symbol_table, environments, scope>>
    /\ EvalFrame

(* evaluate_lambda: Value::new_procedure(heap, arity, act, body). *)
EvaluateLambda ==
    /\ Entering("Lambda")
    /\ NoCollectionDue
    /\ allocations' = allocations + 1
    /\ LET p == AllocIndex(procedures) IN
       /\ procedures' = [AllocArena(procedures) EXCEPT
                            !.pool[p] = [arity |-> ctl.m[1].arity,
                                         body |-> <<ctl.m[1].body>>,
                                         act |-> <<ctl.act>>]]
       /\ ctl' = TrampolineValue(ProcedureVal(p))
       /\ log' = Append(log, Event("new_procedure", ctl.m[1], ctl.act,
                                   ProcedureVal(p), ""))
    /\ UNCHANGED <<stack, forms, strings, symbol_table, environments, scope>>
    /\ EvalFrame

(* History: the names of the block a new activation is for, and the slots  *)
(* its parameters are in.                                                  *)
BlockScope(block) ==
    [names |-> block.names,
     slots |-> [n \in SeqToSet(block.params) |->
                  (CHOOSE k \in 1 .. Len(block.params) :
                      block.params[k] = n) - 1]]

(* Faulty variant: the comparison the other way round. *)
CmpReversed(a, b) ==
    IF b < a THEN "Less" ELSE IF b > a THEN "Greater" ELSE "Equal"

(* proc_ptr.arity.cmp(&(args.len() as u32)) *)
Cmp(a, b) == IF a < b THEN "Less" ELSE IF a > b THEN "Greater" ELSE "Equal"

(* Faulty variant: the new activation hangs below the activation of the    *)
(* caller.                                                                 *)
ExtendCaller(parent, values) ==
    [parent |-> <<Top.act>>,
     vals |-> [k \in 1 .. Len(values) |-> <<values[k]>>]]

(* Activation::extend(heap, parent, values): what the new activation       *)
(* holds.                                                                  *)
Extend(parent, values) ==
    [parent |-> parent,
     vals |-> [k \in 1 .. Len(values) |-> <<values[k]>>]]

(* apply_invocation: a primitive is called and its result is a Value; a    *)
(* procedure of the right arity gets a new activation, and its body in     *)
(* that activation is returned as a Thunk.                                 *)
ApplyInvocation(proc_val, args) ==
    CASE proc_val.tag = "Primitive" ->
            /\ PrimitiveNames[proc_val.index + 1] \in Arithmetic
            /\ ctl' = PrimitiveCall(PrimitiveNames[proc_val.index + 1], args)
            /\ UNCHANGED <<environments, allocations, scope>>
      [] proc_val.tag = "Procedure" ->
            LET proc == procedures.pool[proc_val.index] IN
            IF Cmp(proc.arity, Len(args)) = "Less"
            THEN /\ ctl' = Err("Too many arguments passed")
                 /\ UNCHANGED <<environments, allocations, scope>>
            ELSE IF Cmp(proc.arity, Len(args)) = "Greater"
            THEN /\ ctl' = Err("Too few arguments passed")
                 /\ UNCHANGED <<environments, allocations, scope>>
            ELSE /\ NoCollectionDue
                 /\ allocations' = allocations + 1
                 /\ LET new_act == AllocIndex(environments) IN
                    /\ environments' =
                          [AllocArena(environments) EXCEPT
                              !.pool[new_act] = Extend(proc.act, args)]
                    /\ ctl' = TrampolineThunk(new_act, proc.body[1])
                    /\ scope' =
                          IF "block" \in DOMAIN proc.body[1]
                          THEN (new_act :> BlockScope(proc.body[1].block))
                               @@ scope
                          ELSE scope
      [] OTHER ->
            /\ ctl' = Err("Expected a procedure")
            /\ UNCHANGED <<environments, allocations, scope>>

(* Faulty variant: the parameters are evaluated from the last to the       *)
(* first.                                                                  *)
EvaluateInvocationBackwards ==
    /\ \/ /\ Entering("Invocation")
          /\ stack' = Push(Frame("evaluate_invocation", ctl.m[1], ctl.act,
                                 <<>>))
          /\ ctl' = Call(ctl.m[1].procedure, ctl.act)
          /\ UNCHANGED <<environments, allocations, log, scope>>
       \/ /\ Returning("evaluate_invocation", "Ok")
          /\ Len(Top.vals) < Len(Top.m.params)
          /\ stack' = Append(Pop, [Top EXCEPT !.vals =
                                     IF @ = <<>> THEN <<ctl.val>>
                                     ELSE <<Head(@), ctl.val>> \o Tail(@)])
          /\ ctl' = Call(Top.m.params[Len(Top.m.params) - Len(Top.vals)],
                         Top.act)
          /\ UNCHANGED <<environments, allocations, log, scope>>
       \/ /\ Returning("evaluate_invocation", "Ok")
          /\ Len(Top.vals) = Len(Top.m.params)
          /\ stack' = Pop
          /\ Logged("apply_invocation", Top.m)
          /\ LET vals == IF Top.vals = <<>> THEN <<ctl.val>>
                         ELSE <<Head(Top.vals), ctl.val>> \o Tail(Top.vals)
             IN  ApplyInvocation(Head(vals), Tail(vals))
    /\ UNCHANGED <<forms, strings, symbol_table, procedures>>
    /\ EvalFrame

(* evaluate_invocation: the procedure, then each parameter in order, is    *)
(* evaluated in a nested call; then apply_invocation.                      *)
EvaluateInvocation ==
    /\ \/ /\ Entering("Invocation")
          /\ stack' = Push(Frame("evaluate_invocation", ctl.m[1], ctl.act,
                                 <<>>))
          /\ ctl' = Call(ctl.m[1].procedure, ctl.act)
          /\ UNCHANGED <<environments, allocations, log, scope>>
       \/ /\ Returning("evaluate_invocation", "Ok")
          /\ Len(Top.vals) < Len(Top.m.params)
          /\ stack' = Append(Pop, [Top EXCEPT !.vals = Append(@, ctl.val)])
          /\ ctl' = Call(Top.m.params[Len(Top.vals) + 1], Top.act)
          /\ UNCHANGED <<environments, allocations, log, scope>>
       \/ /\ Returning("evaluate_invocation", "Ok")
          /\ Len(Top.vals) = Len(Top.m.params)
          /\ stack' = Pop
          /\ Logged("apply_invocation", Top.m)
          /\ LET vals == Append(Top.vals, ctl.val) IN
             ApplyInvocation(Head(vals), Tail(vals))
    /\ UNCHANGED <<forms, strings, symbol_table, procedures>>
    /\ EvalFrame

----------------------------------------------------------------------------
(* Programs: a procedure `loop` that calls itself N times, as syntactic    *)
(* analysis hands it to the evaluator.                                     *)
(*   (define loop (lambda (n) BODY))  (loop N)                             *)
(* alternative: (if (= n 0) 0 (loop (- n 1)))                              *)
(* consequent:  (if (> n 0) (loop (- n 1)) 0)                              *)
(* sequence:    n (if (= n 0) 0 (loop (- n 1)))                            *)
(* direct:      (loop (- n (/ n n))), which a division by zero ends        *)
(* nontail:     (if (= n 0) 0 (+ 1 (loop (- n 1))))                        *)

TailShapes == {"alternative", "consequent", "sequence", "direct"}
Shapes == TailShapes \cup {"nontail"}

(* The slot Environment::define gives `loop`: the first after the          *)
(* primitives.                                                             *)
LoopSlot == Len(PrimitiveNames)

Global(name) == Reference(1, PrimitiveSlot(name))
Param == Reference(0, 0)
Number(k) == Quotation(Integer(k))
CallLoop(arg) == Invocation(Reference(1, LoopSlot), <<arg>>)
Prim(name, a, b) == Invocation(Global(name), <<a, b>>)

LoopBody(shape) ==
    CASE shape = "alternative" ->
            Conditional(Prim("=", Param, Number(0)), Number(0),
                        CallLoop(Prim("-", Param, Number(1))))
      [] shape = "consequent" ->
            Conditional(Prim(">", Param, Number(0)),
                        CallLoop(Prim("-", Param, Number(1))), Number(0))
      [] shape = "sequence" ->
            Sequence(Param,
                     Conditional(Prim("=", Param, Number(0)), Number(0),
                                 CallLoop(Prim("-", Param, Number(1)))))
      [] shape = "direct" ->
            CallLoop(Prim("-", Param, Prim("/", Param, Param)))
      [] shape = "nontail" ->
            Conditional(Prim("=", Param, Number(0)), Number(0),
                        Prim("+", Number(1),
                             CallLoop(Prim("-", Param, Number(1)))))

Program(shape, n) ==
    <<Definition(0, LoopSlot, Lambda(1, LoopBody(shape))),
      Invocation(Reference(0, LoopSlot), <<Number(n)>>)>>

(* The symbols the reader and analyze have interned for a program. *)
ProgramSymbols(shape) ==
    <<"define", "loop", "lambda", "n">>
    \o (CASE shape = "alternative" -> <<"if", "=", "-">>
          [] shape = "consequent"  -> <<"if", ">", "-">>
          [] shape = "sequence"    -> <<"if", "=", "-">>
          [] shape = "direct"      -> <<"-", "/">>
          [] shape = "nontail"     -> <<"if", "=", "+", "-">>)
    \o <<"quote">>
    \o (IF shape = "direct" THEN <<"if">> ELSE <<>>)
    \o <<"begin", "set!">>

(* The heap when evaluation starts: define_primitives has given each       *)
(* primitive its slot of the global activation, in order; the symbols of   *)
(* the program are interned, and no pair of the forms that were read is    *)
(* live.                                                                   *)
InitEval ==
    \E shape \in Shapes : \E n \in 0 .. MaxN :
        LET names == ProgramSymbols(shape)
            strs == Len(names) + 2
            envs == MaxN + 3
        IN  /\ cons_cells = ArenaNew(ConsCapacity, DefaultCons)
            /\ strings =
                  [pool |-> [i \in 0 .. strs - 1 |->
                                IF i >= strs - Len(names)
                                THEN names[strs - i] ELSE DefaultString],
                   free |-> Range(0, strs - Len(names))]
            /\ symbol_table =
                  [name \in SeqToSet(names) |->
                      strs - (CHOOSE k \in 1 .. Len(names) : names[k] = name)]
            /\ environments =
                  [AllocArena(ArenaNew(envs, DefaultActivation)) EXCEPT
                      !.pool[envs - 1].vals =
                          [k \in 1 .. Len(PrimitiveNames) |->
                              <<PrimitiveVal(k - 1)>>]]
            /\ global_environment = envs - 1
            /\ procedures = ArenaNew(ProceduresCapacity + 1, DefaultProcedure)
            /\ roots = [x \in {} |-> 0]
            /\ allocations = 0
            /\ ClientInit
            /\ budget = 0
            /\ stack = <<>>
            /\ ctl = Control("idle", <<>>, 0, EmptyList, "")
            /\ forms = Program(shape, n)
            /\ prog = [shape |-> shape, n |-> n]
            /\ environment = <<>>
            /\ log = <<>>
            /\ scope = <<>>

NextEval ==
    \/ EvaluateForm
    \/ MeaningEvaluate
    \/ TrampolineRun
    \/ TryReturn
    \/ EvaluateQuotation
    \/ EvaluateReference
    \/ EvaluateDefinition
    \/ EvaluateConditional
    \/ EvaluateSequence
    \/ EvaluateLambda
    \/ EvaluateInvocation

SpecEval == InitEval /\ [][NextEval]_vars

----------------------------------------------------------------------------
(* The read-eval loop (main.rs repl) over programs in source form: each    *)
(* form is analyzed and evaluated in the global activation, and an error   *)
(* ends the form, not the loop.                                            *)

(* The loop is between two forms and the reader has another one. *)
FormPending ==
    /\ Running
    /\ stack = <<>>
    /\ ctl.mode \in {"idle", "Ok", "Err"}
    /\ forms # <<>>

(* eval.rs evaluate(heap, form): analyze, then Meaning::evaluate in the    *)
(* global activation.                                                      *)
Evaluate ==
    /\ FormPending
    /\ LET analyzed == Analyze(environment, Head(forms)) IN
       /\ environment' = analyzed.env
       /\ ctl' = IF analyzed.m = <<>> THEN Err(analyzed.err)
                 ELSE Call(analyzed.m[1], global_environment)
    /\ forms' = Tail(forms)
    /\ UNCHANGED <<stack, log, scope, prog>>
    /\ UNCHANGED <<cons_cells, strings, environments, procedures, roots,
                   symbol_table, global_environment, allocations, rooted, pc,
                   panicked, marked, gc, ret, issued, budget>>

(* Source forms. *)
Sym(name) == SymbolForm(name)
Num(k) == Datum(Integer(k))
Quote(form) == List(<<Sym("quote"), form>>)
Define(name, value) == List(<<Sym("define"), Sym(name), value>>)
SetBang(name, value) == List(<<Sym("set!"), Sym(name), value>>)
If(c, t, e) == List(<<Sym("if"), c, t, e>>)
Begin(items) == List(<<Sym("begin")>> \o items)
LambdaForm(params, body) ==
    List(<<Sym("lambda"), List([k \in 1 .. Len(params) |-> Sym(params[k])])>>
         \o body)
Apply(head, args) == List(<<head>> \o args)

(* The programs. With a, b, n, k small numbers:                            *)
(*   closure     (define add (lambda (x) (lambda (y) (- x y))))            *)
(*               (define x 9)  ((add a) b)                                 *)
(*   counter     (define k (lambda (x) (lambda () x)))                     *)
(*               (define k1 (k 1))  (define k2 (k 2))  (k1)  (k2)          *)
(*   local       ((lambda (x) (define y 2) (- x y)) 5)                     *)
(*   shadow      (define x 1)  ((lambda (x) x) 2)  x                       *)
(*   recursive   ((lambda () (define f (lambda () f)) (f)))                *)
(*   forward     x  (define get (lambda () x))  (get)  (define x 5)        *)
(*               (get)  x                                                  *)
(*   forward-set (define put (lambda () (set! x 6)))  (put)                *)
(*               (define x 5)  (put)  x                                    *)
(*   set         (define z 4)  ((lambda (x) (set! x 3) (set! z x) x) 1)  z *)
(*   unbound-set (set! x 6)  x                                             *)
(*   arity       ((lambda (p1 .. pk) 0) 1 .. n)                            *)
(*   if          (if C 1 2)                                                *)
(*   order       (H A B), H one of - and the undefined u, A and B a number *)
(*               or a division by zero                                     *)
(*   begin       (begin e1 .. en), ek a division by zero                   *)
Prog(shape, n, k, c) == [shape |-> shape, n |-> n, k |-> k, c |-> c]

Conditions == {"#f", "#t", "0", "()", "(= 0 3)", "'s", "(lambda () 0)"}

Condition(c) ==
    CASE c = "#f"      -> Datum(Boolean(FALSE))
      [] c = "#t"      -> Datum(Boolean(TRUE))
      [] c = "0"       -> Num(0)
      [] c = "()"      -> Quote(List(<<>>))
      [] c = "(= 0 3)" -> Apply(Sym("="), <<Num(0), Num(3)>>)
      [] c = "'s"      -> Quote(Sym("s"))
      [] c = "(lambda () 0)" -> LambdaForm(<<>>, <<Num(0)>>)

(* The number k, or the division of k by zero. *)
Fails(k) == Apply(Sym("/"), <<Num(k), Num(0)>>)
NumberOrFails(k, fails) == IF fails THEN Fails(k) ELSE Num(k)

ParamNames == <<"x", "y", "z">>

LangPrograms ==
    {Prog("closure", a, b, "") : a \in 0 .. 1, b \in 0 .. 1}
    \cup {Prog(shape, 0, 0, "") :
             shape \in {"counter", "local", "shadow", "recursive", "forward",
                        "forward-set", "set", "unbound-set"}}
    \cup {Prog("arity", n, k, "") : n \in 0 .. MaxArity, k \in 0 .. MaxArity}
    \cup {Prog("if", 0, 0, c) : c \in Conditions}
    \cup {Prog("order", a, b, h) : a \in 0 .. 1, b \in 0 .. 1, h \in {"-", "u"}}
    \cup {Prog("begin", n, k, "") : n \in 1 .. MaxBegin, k \in 0 .. MaxBegin}

Source(p) ==
    CASE p.shape = "closure" ->
            <<Define("add", LambdaForm(<<"x">>,
                      <<LambdaForm(<<"y">>,
                          <<Apply(Sym("-"), <<Sym("x"), Sym("y")>>)>>)>>)),
              Define("x", Num(9)),
              Apply(Apply(Sym("add"), <<Num(p.n)>>), <<Num(p.k)>>)>>
      [] p.shape = "counter" ->
            <<Define("k", LambdaForm(<<"x">>,
                                     <<LambdaForm(<<>>, <<Sym("x")>>)>>)),
              Define("k1", Apply(Sym("k"), <<Num(1)>>)),
              Define("k2", Apply(Sym("k"), <<Num(2)>>)),
              Apply(Sym("k1"), <<>>),
              Apply(Sym("k2"), <<>>)>>
      [] p.shape = "local" ->
            <<Apply(LambdaForm(<<"x">>,
                               <<Define("y", Num(2)),
                                 Apply(Sym("-"), <<Sym("x"), Sym("y")>>)>>),
                    <<Num(5)>>)>>
      [] p.shape = "shadow" ->
            <<Define("x", Num(1)),
              Apply(LambdaForm(<<"x">>, <<Sym("x")>>), <<Num(2)>>),
              Sym("x")>>
      [] p.shape = "recursive" ->
            <<Apply(LambdaForm(<<>>,
                               <<Define("f", LambdaForm(<<>>, <<Sym("f")>>)),
                                 Apply(Sym("f"), <<>>)>>),
                    <<>>)>>
      [] p.shape = "forward" ->
            <<Sym("x"),
              Define("get", LambdaForm(<<>>, <<Sym("x")>>)),
              Apply(Sym("get"), <<>>),
              Define("x", Num(5)),
              Apply(Sym("get"), <<>>),
              Sym("x")>>
      [] p.shape = "forward-set" ->
            <<Define("put", LambdaForm(<<>>, <<SetBang("x", Num(6))>>)),
              Apply(Sym("put"), <<>>),
              Define("x", Num(5)),
              Apply(Sym("put"), <<>>),
              Sym("x")>>
      [] p.shape = "set" ->
            <<Define("z", Num(4)),
              Apply(LambdaForm(<<"x">>,
                               <<SetBang("x", Num(3)),
                                 SetBang("z", Sym("x")),
                                 Sym("x")>>),
                    <<Num(1)>>),
              Sym("z")>>
      [] p.shape = "unbound-set" ->
            <<SetBang("x", Num(6)), Sym("x")>>
      [] p.shape = "arity" ->
            <<Apply(LambdaForm(SubSeq(ParamNames, 1, p.k), <<Num(0)>>),
                    [i \in 1 .. p.n |-> Num(i)])>>
      [] p.shape = "if" ->
            <<If(Condition(p.c), Num(1), Num(2))>>
      [] p.shape = "order" ->
            <<Apply(Sym(p.c), <<NumberOrFails(1, p.n = 1),
                                NumberOrFails(2, p.k = 1)>>)>>
      [] p.shape = "begin" ->
            <<Begin([i \in 1 .. p.n |-> NumberOrFails(i, i = p.k)])>>

(* The names the reader and analysis have interned. *)
LangSymbols == <<"quote", "if", "begin", "define", "set!", "lambda", "s">>

(* The heap when the loop starts: define_primitives has defined each       *)
(* primitive in the global block of the environment and in its slot of the *)
(* global activation; the symbol table holds the names above.              *)
LangInit(p, source) ==
        LET names == LangSymbols
            strs == Len(names) + 2
            envs == MaxArity + 4
        IN  /\ cons_cells = ArenaNew(ConsCapacity, DefaultCons)
            /\ strings =
                  [pool |-> [i \in 0 .. strs - 1 |->
                                IF i >= strs - Len(names)
                                THEN names[strs - i] ELSE DefaultString],
                   free |-> Range(0, strs - Len(names))]
            /\ symbol_table =
                  [name \in SeqToSet(names) |->
                      strs - (CHOOSE k \in 1 .. Len(names) : names[k] = name)]
            /\ environments =
                  [AllocArena(ArenaNew(envs, DefaultActivation)) EXCEPT
                      !.pool[envs - 1].vals =
                          [k \in 1 .. Len(PrimitiveNames) |->
                              <<PrimitiveVal(k - 1)>>]]
            /\ global_environment = envs - 1
            /\ procedures = ArenaNew(MaxArity + 2, DefaultProcedure)
            /\ roots = [x \in {} |-> 0]
            /\ allocations = 0
            /\ ClientInit
            /\ budget = 0
            /\ stack = <<>>
            /\ ctl = Control("idle", <<>>, 0, EmptyList, "")
            /\ forms = source
            /\ prog = p
            /\ environment = DefineAll(EnvironmentNew, PrimitiveNames)
            /\ log = <<>>
            /\ scope =
                  (envs - 1) :>
                      [names |-> SeqToSet(PrimitiveNames) \cup
                                 UNION {DefinedIn(source[k]) :
                                           k \in 1 .. Len(source)},
                       slots |-> [n \in SeqToSet(PrimitiveNames) |->
                                     PrimitiveSlot(n)]]

InitLang == \E p \in LangPrograms : LangInit(p, Source(p))

NextLang ==
    \/ Evaluate
    \/ MeaningEvaluate
    \/ TrampolineRun
    \/ TryReturn
    \/ EvaluateQuotation
    \/ EvaluateReference
    \/ EvaluateDefinition
    \/ EvaluateSetVariable
    \/ EvaluateConditional
    \/ EvaluateSequence
    \/ EvaluateLambda
    \/ EvaluateInvocation

SpecLang == InitLang /\ [][NextLang]_vars

----------------------------------------------------------------------------
(* References with any coordinates: the meaning                            *)
(*   ((lambda (a) (define c 8) REF) 7)                                     *)
(* with the define in slot 2, so that the activation of the call has a     *)
(* bound slot 0, an unbound slot 1 and a bound slot 2, and its one parent  *)
(* is the global activation; REF is Reference(i, j).                       *)

MaxLinks == 3
MaxSlot == 3

FetchSlots == 0 .. MaxSlot \cup {Len(PrimitiveNames)}

FetchProgram(i, j) ==
    <<Invocation(Lambda(1, Sequence(Definition(0, 2, Quotation(Integer(8))),
                                    Reference(i, j))),
                 <<Quotation(Integer(7))>>)>>

InitFetch ==
    \E i \in 0 .. MaxLinks : \E j \in FetchSlots :
        /\ cons_cells = ArenaNew(ConsCapacity, DefaultCons)
        /\ strings = ArenaNew(2, DefaultString)
        /\ symbol_table = [name \in {} |-> 0]
        /\ environments =
              [AllocArena(ArenaNew(3, DefaultActivation)) EXCEPT
                  !.pool[2].vals = [k \in 1 .. Len(PrimitiveNames) |->
                                       <<PrimitiveVal(k - 1)>>]]
        /\ global_environment = 2
        /\ procedures = ArenaNew(2, DefaultProcedure)
        /\ roots = [x \in {} |-> 0]
        /\ allocations = 0
        /\ ClientInit
        /\ budget = 0
        /\ stack = <<>>
        /\ ctl = Control("idle", <<>>, 0, EmptyList, "")
        /\ forms = FetchProgram(i, j)
        /\ prog = Prog("fetch", i, j, "")
        /\ environment = <<>>
        /\ log = <<>>
        /\ scope = <<>>

NextFetch ==
    \/ EvaluateForm
    \/ MeaningEvaluate
    \/ TrampolineRun
    \/ TryReturn
    \/ EvaluateQuotation
    \/ EvaluateReference
    \/ EvaluateDefinition
    \/ EvaluateSequence
    \/ EvaluateLambda
    \/ EvaluateInvocation

SpecFetch == InitFetch /\ [][NextFetch]_vars

----------------------------------------------------------------------------
(* A quotation on the collected heap. The client builds values, hands the  *)
(* subform of a (quote x) it has read to analysis, evaluates the Meaning   *)
(* it got, drops its smart pointers and the Meaning, and collects.         *)
(* `forms` holds the Meaning while it exists, `log` what each evaluation   *)
(* of it returned.                                                         *)

MaxQuoteSteps == 9
MaxEvaluations == 2

(* Faulty variant: the Meaning keeps the value without rooting it. *)
MeaningNewQuotationUnrooted(r, form) == r

(* Meaning::new_quotation(form): the roots after the clone of the form. *)
MeaningNewQuotation(r, form) == RootedAddRoot(r, form)

(* The Meaning of (quote x) exists. *)
QuotationExists == forms # <<>>
Quoted == forms[1].val

(* analyze_quoted for a form whose subform is the rooted value h (the      *)
(* result of form.cdr(heap).unwrap().car(heap).unwrap()).                  *)
AnalyzeQuotedForm(h) ==
    /\ Idle
    /\ ~QuotationExists
    /\ h \in ValueHandles
    /\ forms' = <<Quotation(h)>>
    /\ roots' = MeaningNewQuotation(roots, h)
    /\ log' = <<>>
    /\ NoCollection /\ NoAllocation /\ ArenasUnchanged
    /\ Called
    /\ UNCHANGED <<symbol_table, global_environment, allocations, pc, issued,
                   rooted, panicked>>
    /\ UNCHANGED <<stack, ctl, prog, environment, scope>>

(* Meaning::evaluate on the quotation: evaluate_quotation returns          *)
(* Rooted::new(heap, **val), which the caller then holds. The history      *)
(* notes whether the caller held the value already and whether the step    *)
(* before was a collection.                                                *)
MeaningEvaluateQuotation ==
    /\ Idle /\ CanRoot
    /\ QuotationExists
    /\ Len(log) < MaxEvaluations
    /\ NewRooted(Quoted)
    /\ log' = Append(log, [event |-> "Ok", m |-> forms[1], val |-> Quoted,
                           held |-> Quoted \in Handles,
                           collected |-> gc # ""])
    /\ NoCollection /\ NoAllocation /\ ArenasUnchanged
    /\ Called
    /\ UNCHANGED <<symbol_table, global_environment, allocations, pc, issued,
                   panicked>>
    /\ UNCHANGED <<stack, ctl, forms, prog, environment, scope>>

(* The Meaning is dropped, and with it the Rooted it holds. *)
DropMeaning ==
    /\ Idle
    /\ QuotationExists
    /\ forms' = <<>>
    /\ IF RootedDropRootFails(roots, Quoted)
       THEN /\ panicked' = "Should never drop_root a gc thing that isn't rooted"
            /\ UNCHANGED roots
       ELSE /\ roots' = RootedDropRoot(roots, Quoted)
            /\ UNCHANGED panicked
    /\ NoCollection /\ NoAllocation /\ ArenasUnchanged
    /\ Called
    /\ UNCHANGED <<symbol_table, global_environment, allocations, pc, issued,
                   rooted>>
    /\ UNCHANGED <<stack, ctl, prog, environment, log, scope>>

InitQuote ==
    /\ HeapInit(ConsCapacity, StringsCapacity, EnvironmentsCapacity,
                ProceduresCapacity)
    /\ ClientInit
    /\ budget = MaxQuoteSteps
    /\ EvalIdle

NextQuote ==
    \/ CollectGarbage
    \/ OnAllocation("new_pair")
    \/ OutOfMemory
    \/ \E car, cdr \in Handles : NewPair(car, cdr)
    \/ RootImmediate
    \/ \E h \in Handles : DropRooted(h)
    \/ \E h \in Handles : AnalyzeQuotedForm(h)
    \/ MeaningEvaluateQuotation
    \/ DropMeaning

SpecQuote == InitQuote /\ [][NextQuote]_vars

----------------------------------------------------------------------------
(* Procedures whose body quotes a value, on the collected heap: the        *)
(* Meaning in `forms` is the body of a (lambda () (quote x)), and          *)
(* evaluate_lambda hands a clone of it to Value::new_procedure.            *)

MaxBodySteps == 9

(* The values the Rooted smart pointers of the body in slot p wrap. *)
BodyQuoted(procs, p) ==
    IF procs.pool[p].body = <<>> THEN {}
    ELSE IF procs.pool[p].body[1].op = "Quotation"
    THEN {procs.pool[p].body[1].val}
    ELSE {}

(* Dropping the body a slot held: the Rooted in it are dropped. *)
DropBody(r, procs, p) ==
    IF BodyQuoted(procs, p) = {} THEN r
    ELSE RootedDropRoot(r, CHOOSE v \in BodyQuoted(procs, p) : TRUE)

(* evaluate_lambda after the on_allocation of allocate_procedure: the body *)
(* is cloned, which roots its quoted value once more; the slot gets the    *)
(* arity, the activation and the clone, whose assignment drops the body    *)
(* the slot held before; the procedure value is rooted for the caller.     *)
EvaluateLambdaQuoting(act) ==
    /\ Running /\ pc = "new_procedure"
    /\ ~IsFull(procedures)
    /\ QuotationExists
    /\ act \in ActivationHandles
    /\ LET p == AllocIndex(procedures) IN
       /\ procedures' = [AllocArena(procedures) EXCEPT
                            !.pool[p] = [arity |-> 0,
                                         body |-> <<forms[1]>>,
                                         act |-> <<act.index>>]]
       /\ rooted' = rooted (+) SetToBag({ProcedureVal(p)})
       /\ roots' = RootedAddRoot(
                      DropBody(RootedAddRoot(roots, Quoted), procedures, p),
                      ProcedureVal(p))
       /\ ret' = GcThing("Procedure", p)
    /\ pc' = "idle"
    /\ NoCollection
    /\ UNCHANGED <<cons_cells, strings, environments, symbol_table,
                   global_environment, allocations, panicked, issued, budget>>
    /\ UNCHANGED evalVars

InitBody ==
    /\ HeapInit(ConsCapacity, StringsCapacity, EnvironmentsCapacity,
                ProceduresCapacity)
    /\ ClientInit
    /\ budget = MaxBodySteps
    /\ EvalIdle

NextBody ==
    \/ CollectGarbage
    \/ \E op \in {"new_pair", "new_procedure"} : OnAllocation(op)
    \/ OutOfMemory
    \/ \E car, cdr \in Handles : NewPair(car, cdr)
    \/ \E act \in Handles : EvaluateLambdaQuoting(act)
    \/ RootImmediate
    \/ GlobalEnv
    \/ \E h \in Handles : DropRooted(h)
    \/ \E h \in Handles : AnalyzeQuotedForm(h)
    \/ DropMeaning

SpecBody == InitBody /\ [][NextBody]_vars

----------------------------------------------------------------------------
(* eq? on the heap. The client has made two pairs with the same car and    *)
(* cdr and holds them; it compares what it holds and immediates, changes   *)
(* and drops the pairs, allocates and collects.                            *)

MaxEqSteps == 3

Immediates ==
    {EmptyList, Integer(0), Integer(1), Boolean(FALSE), Boolean(TRUE),
     Character(0), Character(97)}

HeapBacked == {"Pair", "String", "Symbol", "Procedure"}

(* PartialEq for ArenaPtr<T>: the same index in the same arena. *)
ArenaPtrEq(p, q) == p.index = q.index /\ p.kind = q.kind

(* Faulty variant: pairs are compared by what their cells hold. *)
ValueEqStructural(a, b) ==
    /\ a.tag = b.tag
    /\ IF a.tag = "Pair"
       THEN cons_cells.pool[a.index] = cons_cells.pool[b.index]
       ELSE a.index = b.index

(* The derived PartialEq of Value: the same variant, and equal payloads;   *)
(* the payload of a heap-backed variant is an ArenaPtr, that of a          *)
(* primitive its function pointer.                                         *)
ValueEq(a, b) ==
    /\ a.tag = b.tag
    /\ CASE a.tag \in HeapBacked ->
               ArenaPtrEq(ToGcThing(a)[1], ToGcThing(b)[1])
         [] a.tag = "EmptyList" -> TRUE
         [] OTHER -> a.index = b.index

(* What the client calls eq? on: the values it holds, the empty list, an   *)
(* integer and a character.                                                *)
EqArguments == ValueHandles \cup {EmptyList, Integer(0), Character(0)}

(* eq_question on the arguments a and b. *)
EqQuestion(a, b) ==
    /\ Idle
    /\ a \in EqArguments /\ b \in EqArguments
    /\ ctl' = TrampolineValue(Boolean(ValueEq(a, b)))
    /\ log' = <<[event |-> "eq?", a |-> a, b |-> b]>>
    /\ NoCollection /\ NoAllocation /\ ArenasUnchanged
    /\ Called
    /\ UNCHANGED <<roots, rooted, symbol_table, global_environment,
                   allocations, pc, issued, panicked>>
    /\ UNCHANGED <<stack, forms, prog, environment, scope>>

(* Two calls of Value::new_pair(heap, v, v) have returned. *)
InitEq ==
    \E v \in {EmptyList, Integer(0)} :
        /\ cons_cells = [pool |-> [i \in 0 .. ConsCapacity |->
                                      IF i < 2 THEN [car |-> v, cdr |-> v]
                                      ELSE DefaultCons],
                         free |-> Range(2, ConsCapacity + 1)]
        /\ strings = ArenaNew(StringsCapacity, DefaultString)
        /\ environments = AllocArena(ArenaNew(EnvironmentsCapacity,
                                              DefaultActivation))
        /\ procedures = ArenaNew(ProceduresCapacity, DefaultProcedure)
        /\ roots = (GcThing("Cons", 0) :> 1) @@ (GcThing("Cons", 1) :> 1)
        /\ symbol_table = [x \in {} |-> 0]
        /\ global_environment =
              AllocIndex(ArenaNew(EnvironmentsCapacity, DefaultActivation))
        /\ allocations = 2
        /\ rooted = SetToBag({Pair(0), Pair(1)})
        /\ pc = "idle"
        /\ panicked = ""
        /\ marked = {}
        /\ gc = ""
        /\ ret = NoThing
        /\ issued = {}
        /\ budget = MaxEqSteps
        /\ EvalIdle

NextEq ==
    \/ \E a, b \in EqArguments : EqQuestion(a, b)
    \/ CollectGarbage
    \/ OnAllocation("new_pair")
    \/ \E car, cdr \in Handles : NewPair(car, cdr)
    \/ \E h \in Handles : DropRooted(h)
    \/ \E h, v \in Handles : SetCdr(h, v)

SpecEq == InitEq /\ [][NextEq]_vars

----------------------------------------------------------------------------
(* Batch mode (main.rs main): the files named on the command line are      *)
(* evaluated one after the other with evaluate_file; with no argument the  *)
(* read-eval loop is started. pc is the place main is at ("args" between   *)
(* two files, "file" within evaluate_file, "repl", "exit"), budget the     *)
(* number of arguments taken up, ret the exit status once the process has  *)
(* ended.                                                                  *)

MaxFiles == 2

(* What the reader yields: a form, or an error. *)
ReadOk(form) == [form |-> <<form>>, err |-> ""]
ReadErr(msg) == [form |-> <<>>, err |-> msg]

(* A file that cannot be opened, and a file with the given contents. *)
NoFile == [exists |-> FALSE, items |-> <<>>]
File(items) == [exists |-> TRUE, items |-> items]

(* The files there are: one that cannot be opened, an empty one, and       *)
(*   ((lambda () 1))    1 2    1 (/ 1 0) 2    (quote) 2    ( 2             *)
(*   (define x 2) x     (define x 1) (/ 1 0) 2                             *)
Files ==
    {NoFile,
     File(<<>>),
     File(<<ReadOk(Define("x", Num(2))), ReadOk(Sym("x"))>>),
     File(<<ReadOk(Define("x", Num(1))), ReadOk(Fails(1)), ReadOk(Num(2))>>),
     File(<<ReadOk(Apply(LambdaForm(<<>>, <<Num(1)>>), <<>>))>>),
     File(<<ReadOk(Num(1)), ReadOk(Num(2))>>),
     File(<<ReadOk(Num(1)), ReadOk(Fails(1)), ReadOk(Num(2))>>),
     File(<<ReadOk(List(<<Sym("quote")>>)), ReadOk(Num(2))>>),
     File(<<ReadErr("Unexpected EOF"), ReadOk(Num(2))>>)}

(* os::args().iter().skip(1) *)
CommandLines ==
    UNION {[1 .. n -> Files] : n \in 0 .. MaxFiles}

(* History: a step of main. *)
MainEvent(event, file, item, msg) ==
    Event(event, <<>>, file, Integer(item), msg)

(* The exit status of a process whose main function returns. *)
ExitStatus == 0

InitBatch ==
    \E args \in CommandLines :
        LET names == LangSymbols
            strs == Len(names) + 2
            envs == MaxArity + 4
        IN  /\ cons_cells = ArenaNew(ConsCapacity, DefaultCons)
            /\ strings =
                  [pool |-> [i \in 0 .. strs - 1 |->
                                IF i >= strs - Len(names)
                                THEN names[strs - i] ELSE DefaultString],
                   free |-> Range(0, strs - Len(names))]
            /\ symbol_table =
                  [name \in SeqToSet(names) |->
                      strs - (CHOOSE k \in 1 .. Len(names) : names[k] = name)]
            /\ environments =
                  [AllocArena(ArenaNew(envs, DefaultActivation)) EXCEPT
                      !.pool[envs - 1].vals =
                          [k \in 1 .. Len(PrimitiveNames) |->
                              <<PrimitiveVal(k - 1)>>]]
            /\ global_environment = envs - 1
            /\ procedures = ArenaNew(MaxArity + 2, DefaultProcedure)
            /\ roots = [x \in {} |-> 0]
            /\ allocations = 0
            /\ rooted = EmptyBag
            /\ pc = "args"
            /\ panicked = ""
            /\ marked = {}
            /\ gc = ""
            /\ ret = <<>>
            /\ issued = {}
            /\ budget = 0
            /\ stack = <<>>
            /\ ctl = Control("idle", <<>>, 0, EmptyList, "")
            /\ forms = <<>>
            /\ prog = [shape |-> "batch", files |-> args]
            /\ environment = DefineAll(EnvironmentNew, PrimitiveNames)
            /\ log = <<>>
            /\ scope =
                  (envs - 1) :>
                      [names |-> SeqToSet(PrimitiveNames),
                       slots |-> [n \in SeqToSet(PrimitiveNames) |->
                                     PrimitiveSlot(n)]]

BatchFrame ==
    UNCHANGED <<cons_cells, strings, environments, procedures, roots,
                symbol_table, global_environment, allocations, rooted,
                panicked, marked, gc, issued, stack, prog, scope>>

(* main takes the next argument and evaluate_file opens it: read_from_file *)
(* fails, or the result starts as the empty list and the reader is at the  *)
(* first form.                                                             *)
OpenFile ==
    /\ pc = "args"
    /\ budget < Len(prog.files)
    /\ LET file == prog.files[budget + 1] IN
       /\ forms' = file.items
       /\ ctl' = IF file.exists THEN Ok(EmptyList)
                 ELSE Err("Failed to read from file")
    /\ budget' = budget + 1
    /\ pc' = "file"
    /\ log' = Append(log, MainEvent("evaluate_file", budget + 1, 0, ""))
    /\ UNCHANGED <<ret, environment>>
    /\ BatchFrame

(* Faulty variant: a form that cannot be read or analyzed is passed over   *)
(* and the loop goes on with the next one.                                 *)
EvaluateFileFormSkipping ==
    /\ pc = "file"
    /\ stack = <<>>
    /\ ctl.mode = "Ok"
    /\ forms # <<>>
    /\ LET item == Head(forms)
           analyzed == Analyze(environment, item.form[1])
       IN  IF item.form = <<>>
           THEN UNCHANGED <<ctl, environment>>
           ELSE /\ environment' = analyzed.env
                /\ ctl' = IF analyzed.m = <<>> THEN ctl
                          ELSE Call(analyzed.m[1], global_environment)
    /\ forms' = Tail(forms)
    /\ log' = Append(log, MainEvent("form", budget,
                                    Len(prog.files[budget].items)
                                       - Len(forms) + 1, ""))
    /\ UNCHANGED <<pc, ret, budget>>
    /\ UNCHANGED <<cons_cells, strings, environments, procedures, roots,
                   symbol_table, global_environment, allocations, rooted,
                   panicked, marked, gc, issued, stack, prog, scope>>

(* The loop of evaluate_file: the next read result; try! ends the file on  *)
(* a read error, and evaluate analyzes the form and calls its meaning in   *)
(* the global activation.                                                  *)
EvaluateFileForm ==
    /\ pc = "file"
    /\ stack = <<>>
    /\ ctl.mode = "Ok"
    /\ forms # <<>>
    /\ LET item == Head(forms)
           analyzed == Analyze(environment, item.form[1])
       IN  IF item.form = <<>>
           THEN /\ ctl' = Err(item.err)
                /\ UNCHANGED environment
           ELSE /\ environment' = analyzed.env
                /\ ctl' = IF analyzed.m = <<>> THEN Err(analyzed.err)
                          ELSE Call(analyzed.m[1], global_environment)
    /\ forms' = Tail(forms)
    /\ log' = Append(log, MainEvent("form", budget,
                                    Len(prog.files[budget].items)
                                       - Len(forms) + 1, ""))
    /\ UNCHANGED <<pc, ret, budget>>
    /\ BatchFrame

(* evaluate_file returns Ok(result): main goes on to the next argument. *)
FileDone ==
    /\ pc = "file"
    /\ stack = <<>>
    /\ ctl.mode = "Ok"
    /\ forms = <<>>
    /\ pc' = "args"
    /\ UNCHANGED <<ctl, forms, ret, budget, environment, log>>
    /\ BatchFrame

(* evaluate_file returns Err(msg): main writes "Error: msg" to stderr and  *)
(* returns.                                                                *)
MainError ==
    /\ pc = "file"
    /\ stack = <<>>
    /\ ctl.mode = "Err"
    /\ log' = Append(log, MainEvent("stderr", budget, 0, ctl.err))
    /\ pc' = "exit"
    /\ ret' = <<ExitStatus>>
    /\ UNCHANGED <<ctl, forms, budget, environment>>
    /\ BatchFrame

(* The arguments are used up: with none passed the read-eval loop starts,  *)
(* otherwise main returns.                                                 *)
MainReturn ==
    /\ pc = "args"
    /\ budget = Len(prog.files)
    /\ IF budget = 0
       THEN pc' = "repl" /\ UNCHANGED ret
       ELSE pc' = "exit" /\ ret' = <<ExitStatus>>
    /\ UNCHANGED <<ctl, forms, budget, environment, log>>
    /\ BatchFrame

NextBatch ==
    \/ OpenFile
    \/ EvaluateFileForm
    \/ FileDone
    \/ MainError
    \/ MainReturn
    \/ MeaningEvaluate
    \/ TrampolineRun
    \/ TryReturn
    \/ EvaluateQuotation
    \/ EvaluateReference
    \/ EvaluateDefinition
    \/ EvaluateLambda
    \/ EvaluateInvocation

SpecBatch == InitBatch /\ [][NextBatch]_vars

----------------------------------------------------------------------------
(* The read-eval-print loop (main.rs repl) over the same programs: a form  *)
(* is read and evaluated, its value or its error is written to stdout, the *)
(* heap is collected, and the loop turns to the next form.                 *)

(* History: what the loop writes for a result. *)
Written(result) ==
    IF result.mode = "Ok"
    THEN Event("print", <<>>, 0, result.val, "")
    ELSE Event("Error: ", <<>>, 0, EmptyList, result.err)

(* for form in reader { match eval::evaluate(heap, &form) .. *)
ReplEvaluate ==
    /\ pc = "idle"
    /\ ctl.mode = "idle"
    /\ Evaluate

(* Faulty variant: an error is written and ends the loop. *)
ReplPrintOrExit ==
    /\ Running
    /\ pc = "idle"
    /\ stack = <<>>
    /\ ctl.mode \in {"Ok", "Err"}
    /\ log' = Append(log, Written(ctl))
    /\ Collect("collect_garbage")
    /\ ctl' = Control("idle", <<>>, 0, EmptyList, "")
    /\ pc' = IF ctl.mode = "Err" THEN "exit" ELSE pc
    /\ UNCHANGED <<roots, symbol_table, global_environment, rooted,
                   panicked, ret, issued, budget>>
    /\ UNCHANGED <<stack, forms, prog, environment, scope>>

(* .. Ok(val) => print, Err(e) => write "Error: {}"; heap.collect_garbage() *)
ReplPrint ==
    /\ Running
    /\ pc = "idle"
    /\ stack = <<>>
    /\ ctl.mode \in {"Ok", "Err"}
    /\ log' = Append(log, Written(ctl))
    /\ Collect("collect_garbage")
    /\ ctl' = Control("idle", <<>>, 0, EmptyList, "")
    /\ UNCHANGED <<roots, symbol_table, global_environment, rooted, pc,
                   panicked, ret, issued, budget>>
    /\ UNCHANGED <<stack, forms, prog, environment, scope>>

(* The reader is at the end of its input: repl returns. *)
ReplReturn ==
    /\ Running
    /\ pc = "idle"
    /\ stack = <<>>
    /\ ctl.mode = "idle"
    /\ forms = <<>>
    /\ pc' = "exit"
    /\ UNCHANGED <<cons_cells, strings, environments, procedures, roots,
                   symbol_table, global_environment, allocations, rooted,
                   panicked, marked, gc, ret, issued, budget>>
    /\ UNCHANGED evalVars

NextRepl ==
    \/ ReplEvaluate
    \/ ReplPrint
    \/ ReplReturn
    \/ MeaningEvaluate
    \/ TrampolineRun
    \/ TryReturn
    \/ EvaluateQuotation
    \/ EvaluateReference
    \/ EvaluateDefinition
    \/ EvaluateSetVariable
    \/ EvaluateConditional
    \/ EvaluateSequence
    \/ EvaluateLambda
    \/ EvaluateInvocation

SpecRepl == InitLang /\ [][NextRepl]_vars

----------------------------------------------------------------------------
(* Printing (value.rs print and print_pair). The calls that are still to   *)
(* be made or finished are kept on the stack, the top at the end; marked   *)
(* is the set `seen`, log the text written so far, piece by piece.         *)

Task(op, val, text) == [op |-> op, val |-> val, text |-> text]

(* What print writes for a value that is not a pair. *)
Text(val) ==
    CASE val.tag = "EmptyList" -> "()"
      [] val.tag = "Integer"   -> IF val.index = 1 THEN "1" ELSE "0"
      [] val.tag = "Boolean"   -> IF val.index THEN "#t" ELSE "#f"
      [] OTHER                 -> "#<procedure>"

PrintTop == stack[Len(stack)]
PrintRest == SubSeq(stack, 1, Len(stack) - 1)

PrintFrame ==
    UNCHANGED <<cons_cells, strings, environments, procedures, roots,
                symbol_table, global_environment, allocations, rooted,
                panicked, gc, ret, issued, budget, ctl, forms, prog,
                environment, scope>>

(* The heaps to print from: every cell holds 1 or a pair in its car and    *)
(* (), 1 or a pair in its cdr, as cons and set-car!/set-cdr! can make it;  *)
(* the first pair is printed.                                              *)
InitPrint ==
    /\ \E pool \in [0 .. ConsCapacity - 1 ->
                       [car : {Integer(1)} \cup
                              {Pair(c) : c \in 0 .. ConsCapacity - 1},
                        cdr : {EmptyList, Integer(1)} \cup
                              {Pair(c) : c \in 0 .. ConsCapacity - 1}]] :
          cons_cells = [pool |-> pool, free |-> <<>>]
    /\ strings = ArenaNew(StringsCapacity, DefaultString)
    /\ environments = AllocArena(ArenaNew(EnvironmentsCapacity,
                                          DefaultActivation))
    /\ procedures = ArenaNew(ProceduresCapacity, DefaultProcedure)
    /\ roots = (GcThing("Cons", 0) :> 1)
    /\ symbol_table = [x \in {} |-> 0]
    /\ global_environment =
          AllocIndex(ArenaNew(EnvironmentsCapacity, DefaultActivation))
    /\ allocations = ConsCapacity
    /\ rooted = SetToBag({Pair(0)})
    /\ pc = "print"
    /\ panicked = ""
    /\ marked = {}
    /\ gc = ""
    /\ ret = NoThing
    /\ issued = {}
    /\ budget = 0
    /\ stack = <<Task("print", Pair(0), "")>>
    /\ ctl = Control("idle", <<>>, 0, EmptyList, "")
    /\ forms = <<>>
    /\ prog = [shape |-> "print", n |-> 0]
    /\ environment = <<>>
    /\ log = <<>>
    /\ scope = <<>>

(* print(f, val, seen): a pair is written between parentheses by           *)
(* print_pair, anything else at once.                                      *)
PrintValue ==
    /\ pc = "print"
    /\ stack # <<>>
    /\ PrintTop.op = "print"
    /\ IF PrintTop.val.tag = "Pair"
       THEN /\ log' = Append(log, "(")
            /\ stack' = PrintRest \o <<Task("write", EmptyList, ")"),
                                       Task("print_pair", PrintTop.val, "")>>
       ELSE /\ log' = Append(log, Text(PrintTop.val))
            /\ stack' = PrintRest
    /\ UNCHANGED <<marked, pc>>
    /\ PrintFrame

(* Faulty variant: print_pair without the set of the cells seen. *)
PrintPairUnseen ==
    /\ pc = "print"
    /\ stack # <<>>
    /\ PrintTop.op = "print_pair"
    /\ LET cons == PrintTop.val.index IN
       /\ marked' = marked \cup {cons}
       /\ log' = log
       /\ stack' = PrintRest \o
                      <<Task("cdr", PrintTop.val, ""),
                        Task("print", cons_cells.pool[cons].car, "")>>
    /\ UNCHANGED pc
    /\ PrintFrame

(* print_pair(f, cons, seen) up to the car: a cell that was seen is        *)
(* written as a cyclic value, a new one is put into seen and its car is    *)
(* printed.                                                                *)
PrintPair ==
    /\ pc = "print"
    /\ stack # <<>>
    /\ PrintTop.op = "print_pair"
    /\ LET cons == PrintTop.val.index IN
       IF cons \in marked
       THEN /\ log' = Append(log, "<cyclic value>")
            /\ stack' = PrintRest
            /\ UNCHANGED marked
       ELSE /\ marked' = marked \cup {cons}
            /\ log' = log
            /\ stack' = PrintRest \o
                           <<Task("cdr", PrintTop.val, ""),
                             Task("print", cons_cells.pool[cons].car, "")>>
    /\ UNCHANGED pc
    /\ PrintFrame

(* print_pair after the car: a cdr that is a pair seen before ends the     *)
(* list as a cyclic value; () ends it, a pair goes on after a blank, and   *)
(* anything else is printed after a dot.                                   *)
PrintCdr ==
    /\ pc = "print"
    /\ stack # <<>>
    /\ PrintTop.op = "cdr"
    /\ LET cdr == cons_cells.pool[PrintTop.val.index].cdr IN
       IF cdr.tag = "Pair" /\ cdr.index \in marked
       THEN /\ log' = Append(log, " . <cyclic value>")
            /\ stack' = PrintRest
       ELSE CASE cdr.tag = "EmptyList" ->
                    /\ log' = log
                    /\ stack' = PrintRest
              [] cdr.tag = "Pair" ->
                    /\ log' = Append(log, " ")
                    /\ stack' = Append(PrintRest, Task("print_pair", cdr, ""))
              [] OTHER ->
                    /\ log' = Append(log, " . ")
                    /\ stack' = Append(PrintRest, Task("print", cdr, ""))
    /\ UNCHANGED <<marked, pc>>
    /\ PrintFrame

(* The write that follows a call: the closing parenthesis. *)
PrintWrite ==
    /\ pc = "print"
    /\ stack # <<>>
    /\ PrintTop.op = "write"
    /\ log' = Append(log, PrintTop.text)
    /\ stack' = PrintRest
    /\ UNCHANGED <<marked, pc>>
    /\ PrintFrame

(* The outermost print returns. *)
PrintReturn ==
    /\ pc = "print"
    /\ stack = <<>>
    /\ pc' = "done"
    /\ UNCHANGED <<marked, stack, log>>
    /\ PrintFrame

NextPrint ==
    \/ PrintValue
    \/ PrintPair
    \/ PrintCdr
    \/ PrintWrite
    \/ PrintReturn

SpecPrint == InitPrint /\ [][NextPrint]_vars /\ WF_vars(NextPrint)

----------------------------------------------------------------------------
(* The primitive apply (primitives.rs apply), invoked by the evaluator on  *)
(* a procedure and a list, beside the direct invocation of the procedure   *)
(* on the same values.                                                     *)

(* args.iter() collected: the cars along the cdrs of a list, and whether   *)
(* the list ended in (). The lists here have no cycle.                     *)
RECURSIVE ConsIterator(_, _)
ConsIterator(pool, val) ==
    CASE val.tag = "EmptyList" -> [ok |-> TRUE, vals |-> <<>>]
      [] val.tag = "Pair" ->
            LET rest == ConsIterator(pool, pool[val.index].cdr) IN
            [ok |-> rest.ok, vals |-> <<pool[val.index].car>> \o rest.vals]
      [] OTHER -> [ok |-> FALSE, vals |-> <<>>]

(* Faulty variant: what follows the last pair of the list is not looked    *)
(* at.                                                                     *)
PrimitiveApplyLenient(args) ==
    IF Len(args) = 2
    THEN ApplyInvocation(args[1], ConsIterator(cons_cells.pool, args[2]).vals)
    ELSE /\ ctl' = Err("Error: bad arguments to apply")
         /\ UNCHANGED <<environments, allocations, scope>>

(* apply(heap, args): with a procedure and a proper list, apply_invocation *)
(* on the elements of the list; the messages name apply between backticks. *)
PrimitiveApply(args) ==
    IF Len(args) = 2
    THEN LET v == ConsIterator(cons_cells.pool, args[2]) IN
         IF v.ok
         THEN ApplyInvocation(args[1], v.vals)
         ELSE /\ ctl' = Err("Must pass a proper list to apply")
              /\ UNCHANGED <<environments, allocations, scope>>
    ELSE /\ ctl' = Err("Error: bad arguments to apply")
         /\ UNCHANGED <<environments, allocations, scope>>

ApplyPrimitive == PrimitiveVal(PrimitiveSlot("apply"))

(* apply_invocation on the primitive apply: the call of the primitive. *)
EvaluateInvocationOfApply ==
    /\ Returning("evaluate_invocation", "Ok")
    /\ Len(Top.vals) = Len(Top.m.params)
    /\ Head(Append(Top.vals, ctl.val)) = ApplyPrimitive
    /\ stack' = Pop
    /\ Logged("apply_invocation", Top.m)
    /\ PrimitiveApply(Tail(Append(Top.vals, ctl.val)))
    /\ UNCHANGED <<forms, strings, symbol_table, procedures>>
    /\ EvalFrame

(* The procedures to invoke: the primitive -, a number, and a procedure of *)
(* k parameters whose body is its last parameter, or 7 without parameters. *)
Invoked(kind) ==
    CASE kind = "primitive" -> PrimitiveVal(PrimitiveSlot("-"))
      [] kind = "number"    -> Integer(5)
      [] OTHER              -> ProcedureVal(0)

(* The list (1 .. n), or (1 .. n . 9), in the cells 0 .. n - 1. *)
ListCells(n, proper) ==
    [c \in 0 .. MaxArity |->
        IF c < n
        THEN [car |-> Integer(c + 1),
              cdr |-> IF c + 1 < n THEN Pair(c + 1)
                      ELSE IF proper THEN EmptyList ELSE Integer(9)]
        ELSE DefaultCons]

ListHead(n, proper) ==
    IF n > 0 THEN Pair(0) ELSE IF proper THEN EmptyList ELSE Integer(9)

(* (f 1 .. n) and (apply f lst), the procedure and the list being there. *)
InvokedDirectly(f, n) ==
    Invocation(Quotation(f), [i \in 1 .. n |-> Quotation(Integer(i))])
InvokedByApply(f, lst) ==
    Invocation(Quotation(ApplyPrimitive), <<Quotation(f), Quotation(lst)>>)

InitApply ==
    \E kind \in {"primitive", "number", "procedure"} :
    \E k \in 0 .. MaxArity :
    \E n \in 0 .. MaxArity + 1 :
    \E way \in {"direct", "apply", "improper"} :
        LET envs == MaxArity + 4
            body == IF k = 0 THEN Quotation(Integer(7))
                    ELSE Reference(0, k - 1)
        IN  /\ kind # "procedure" => k = 0
            /\ cons_cells = [pool |-> ListCells(n, way # "improper"),
                             free |-> Range(n, MaxArity + 1)]
            /\ strings = ArenaNew(StringsCapacity, DefaultString)
            /\ symbol_table = [x \in {} |-> 0]
            /\ environments =
                  [AllocArena(ArenaNew(envs, DefaultActivation)) EXCEPT
                      !.pool[envs - 1].vals =
                          [j \in 1 .. Len(PrimitiveNames) |->
                              <<PrimitiveVal(j - 1)>>]]
            /\ global_environment = envs - 1
            /\ procedures =
                  [pool |-> [p \in 0 .. MaxArity + 1 |->
                                IF p = 0
                                THEN [arity |-> k, body |-> <<body>>,
                                      act |-> <<envs - 1>>]
                                ELSE DefaultProcedure],
                   free |-> Range(1, MaxArity + 2)]
            /\ roots = [x \in {} |-> 0]
            /\ allocations = n + 1
            /\ ClientInit
            /\ budget = 0
            /\ stack = <<>>
            /\ ctl = Call(IF way = "direct"
                          THEN InvokedDirectly(Invoked(kind), n)
                          ELSE InvokedByApply(Invoked(kind),
                                              ListHead(n, way = "apply")),
                          envs - 1)
            /\ forms = <<>>
            /\ prog = [shape |-> way, n |-> n, k |-> k, c |-> kind]
            /\ environment = DefineAll(EnvironmentNew, PrimitiveNames)
            /\ log = <<>>
            /\ scope =
                  (envs - 1) :>
                      [names |-> SeqToSet(PrimitiveNames),
                       slots |-> [x \in SeqToSet(PrimitiveNames) |->
                                     PrimitiveSlot(x)]]

NextApply ==
    \/ MeaningEvaluate
    \/ TrampolineRun
    \/ TryReturn
    \/ EvaluateQuotation
    \/ EvaluateReference
    \/ EvaluateInvocation
    \/ EvaluateInvocationOfApply

SpecApply == InitApply /\ [][NextApply]_vars

----------------------------------------------------------------------------
(* Syntactic analysis of special forms of every length, with names and     *)
(* parameters that are symbols and that are not.                           *)

MaxParts == 4

Keywords == {"quote", "define", "set!", "lambda", "if", "begin"}

(* What a part of a form can be:  1  s  ()  (s)  (1)  *)
Parts(keyword) ==
    {Num(1), Sym("s"), List(<<>>)}
    \cup (IF keyword = "quote" THEN {}
          ELSE {List(<<Sym("s")>>), List(<<Num(1)>>)})

SpecialForms ==
    UNION {{List(<<Sym(keyword)>> \o parts) :
               parts \in UNION {[1 .. n -> Parts(keyword)] :
                                   n \in 0 .. MaxParts}} :
           keyword \in Keywords}

InitAnalyze ==
    \E form \in SpecialForms :
        LangInit([shape |-> "analyze", form |-> form], <<form>>)

NextAnalyze == Evaluate

SpecAnalyze == InitAnalyze /\ [][NextAnalyze]_vars

----------------------------------------------------------------------------
(* The static Environment on its own (environment.rs): any sequence of     *)
(* extend, pop, define and define_global on Environment::new(). log holds  *)
(* the last call with the coordinates it returned.                         *)

MaxEnvSteps == 3

(* The names the calls are made with. *)
BlockNames == {"a", "b", "c"}

(* The Vec<String> handed to extend; a name may occur twice. *)
NameVectors == UNION {[1 .. n -> BlockNames] : n \in 0 .. MaxArity}

(* A call of a method with what it returned; extend and pop return         *)
(* nothing.                                                                *)
EnvCall(op, names, coords) == [op |-> op, names |-> names, coords |-> coords]

InitEnv ==
    /\ cons_cells = ArenaNew(ConsCapacity, DefaultCons)
    /\ strings = ArenaNew(StringsCapacity, DefaultString)
    /\ environments = ArenaNew(EnvironmentsCapacity, DefaultActivation)
    /\ procedures = ArenaNew(ProceduresCapacity, DefaultProcedure)
    /\ roots = [x \in {} |-> 0]
    /\ symbol_table = [x \in {} |-> 0]
    /\ global_environment = 0
    /\ allocations = 0
    /\ ClientInit
    /\ budget = MaxEnvSteps
    /\ stack = <<>>
    /\ ctl = Control("idle", <<>>, 0, EmptyList, "")
    /\ forms = <<>>
    /\ prog = [shape |-> "environment"]
    /\ environment = EnvironmentNew
    /\ log = <<>>
    /\ scope = <<>>

EnvFrame ==
    UNCHANGED <<cons_cells, strings, environments, procedures, roots,
                symbol_table, global_environment, allocations, rooted, pc,
                marked, gc, ret, issued, stack, ctl, forms, prog, scope>>

EnvCallable == panicked = "" /\ budget > 0

(* env.extend(names) *)
ExtendBlock(names) ==
    /\ EnvCallable
    /\ environment' = EnvironmentExtend(environment, names)
    /\ log' = <<EnvCall("extend", names, <<>>)>>
    /\ budget' = budget - 1
    /\ UNCHANGED panicked
    /\ EnvFrame

(* Faulty variant: pop without its assertion, the global block is popped   *)
(* like any other.                                                         *)
PopBlockUnchecked ==
    /\ EnvCallable
    /\ environment' = EnvironmentPop(environment)
    /\ log' = <<EnvCall("pop", <<>>, <<>>)>>
    /\ budget' = budget - 1
    /\ UNCHANGED panicked
    /\ EnvFrame

(* env.pop(): the assertion fails on the global block. *)
PopBlock ==
    /\ EnvCallable
    /\ IF Len(environment) > 1
       THEN /\ environment' = EnvironmentPop(environment)
            /\ UNCHANGED panicked
       ELSE /\ panicked' = "Should never pop off the global environment"
            /\ UNCHANGED environment
    /\ log' = <<EnvCall("pop", <<>>, <<>>)>>
    /\ budget' = budget - 1
    /\ EnvFrame

(* env.define(name) *)
DefineName(name) ==
    /\ EnvCallable
    /\ LET r == EnvironmentDefine(environment, name)
       IN  /\ environment' = r.env
           /\ log' = <<EnvCall("define", <<name>>, <<r.i, r.j>>)>>
    /\ budget' = budget - 1
    /\ UNCHANGED panicked
    /\ EnvFrame

(* env.define_global(name) *)
DefineGlobalName(name) ==
    /\ EnvCallable
    /\ LET r == EnvironmentDefineGlobal(environment, name)
       IN  /\ environment' = r.env
           /\ log' = <<EnvCall("define_global", <<name>>, <<r.i, r.j>>)>>
    /\ budget' = budget - 1
    /\ UNCHANGED panicked
    /\ EnvFrame

(* env.lookup(&name): &self, the environment is only read. *)
LookupName(name) ==
    /\ EnvCallable
    /\ LET r == EnvironmentLookup(environment, name)
       IN  log' = <<EnvCall("lookup", <<name>>,
                            IF r = <<>> THEN <<>> ELSE <<r[1].i, r[1].j>>)>>
    /\ budget' = budget - 1
    /\ UNCHANGED <<environment, panicked>>
    /\ EnvFrame

NextEnv ==
    \/ \E names \in NameVectors : ExtendBlock(names)
    \/ PopBlock
    \/ \E name \in BlockNames : DefineName(name)
    \/ \E name \in BlockNames : DefineGlobalName(name)
    \/ \E name \in BlockNames : LookupName(name)

SpecEnv == InitEnv /\ [][NextEnv]_vars

----------------------------------------------------------------------------
(* The mark phase of collect_garbage step by step (heap.rs): stack is      *)
(* pending_trace, forms is newly_pending_trace, marked the marked set; pc  *)
(* is the place in the function: "collect" at its call, "while" at the     *)
(* test of the loop, "for" within the drain of pending_trace, "sweep"      *)
(* after the loop. log holds the things whose referents were traced.       *)

MaxCells == 2

(* The heap graphs collect_garbage is called on: every cell points to any  *)
(* cell or to nothing with its car, and to a cell, to the procedure or to  *)
(* nothing with its cdr; the procedure captures the second activation,     *)
(* which holds the first cell and has the global activation or itself as   *)
(* its parent; the global activation holds the procedure or nothing; any   *)
(* set of cells is rooted.                                                 *)
InitMark ==
    /\ \E pool \in [0 .. MaxCells - 1 ->
                       [car : {EmptyList} \cup
                              {Pair(c) : c \in 0 .. MaxCells - 1},
                        cdr : {EmptyList, Pair(0), ProcedureVal(0)}]] :
          cons_cells = [pool |-> pool, free |-> <<>>]
    /\ strings = ArenaNew(StringsCapacity, DefaultString)
    /\ \E held \in {<<>>, << <<ProcedureVal(0)>> >>} :
          \E parent \in {<<0>>, <<1>>} :
             environments =
                [pool |-> (0 :> [parent |-> <<>>, vals |-> held])
                          @@ (1 :> [parent |-> parent,
                                    vals |-> << <<Pair(0)>> >>]),
                 free |-> <<>>]
    /\ procedures =
          [pool |-> (0 :> [arity |-> 0, body |-> <<>>, act |-> <<1>>]),
           free |-> <<>>]
    /\ \E cells \in SUBSET (0 .. MaxCells - 1) :
          /\ roots = [g \in {GcThing("Cons", c) : c \in cells} |-> 1]
          /\ rooted = SetToBag({Pair(c) : c \in cells})
    /\ symbol_table = [x \in {} |-> 0]
    /\ global_environment = 0
    /\ allocations = MaxCells
    /\ pc = "collect"
    /\ panicked = ""
    /\ marked = {}
    /\ gc = ""
    /\ ret = NoThing
    /\ issued = {}
    /\ budget = 0
    /\ stack = <<>>
    /\ ctl = Control("idle", <<>>, 0, EmptyList, "")
    /\ forms = <<>>
    /\ prog = [shape |-> "mark"]
    /\ environment = <<>>
    /\ log = <<>>
    /\ scope = <<>>

MarkFrame ==
    UNCHANGED <<roots, symbol_table, global_environment, rooted, panicked,
                ret, issued, budget, ctl, prog, environment, scope>>

(* reset_gc_pressure, the empty marked set and pending_trace = get_roots() *)
MarkStart ==
    /\ pc = "collect"
    /\ allocations' = 0
    /\ marked' = {}
    /\ stack' = GetRoots
    /\ pc' = "while"
    /\ UNCHANGED <<cons_cells, strings, environments, procedures, gc, forms,
                   log>>
    /\ MarkFrame

(* while !pending_trace.is_empty(): a new newly_pending_trace, or the end  *)
(* of the loop.                                                            *)
MarkWhile ==
    /\ pc = "while"
    /\ IF stack # <<>>
       THEN forms' = <<>> /\ pc' = "for"
       ELSE pc' = "sweep" /\ UNCHANGED forms
    /\ UNCHANGED <<cons_cells, strings, environments, procedures,
                   allocations, marked, gc, stack, log>>
    /\ MarkFrame

(* Faulty variant: the thing is marked and traced without asking whether   *)
(* it is marked already.                                                   *)
MarkThingAgain ==
    /\ pc = "for"
    /\ stack # <<>>
    /\ LET thing == Head(stack) IN
       /\ marked' = marked \cup {thing}
       /\ forms' = forms \o Trace(thing)
       /\ log' = Append(log, thing)
    /\ stack' = Tail(stack)
    /\ UNCHANGED <<cons_cells, strings, environments, procedures,
                   allocations, gc, pc>>
    /\ MarkFrame

(* for thing in pending_trace.drain(): an unmarked thing is marked and its *)
(* referents are pushed to newly_pending_trace.                            *)
MarkThing ==
    /\ pc = "for"
    /\ stack # <<>>
    /\ LET thing == Head(stack) IN
       IF thing \notin marked
       THEN /\ marked' = marked \cup {thing}
            /\ forms' = forms \o Trace(thing)
            /\ log' = Append(log, thing)
       ELSE UNCHANGED <<marked, forms, log>>
    /\ stack' = Tail(stack)
    /\ UNCHANGED <<cons_cells, strings, environments, procedures,
                   allocations, gc, pc>>
    /\ MarkFrame

(* for thing in newly_pending_trace.drain(): pending_trace.push(thing) *)
MarkRefill ==
    /\ pc = "for"
    /\ stack = <<>>
    /\ stack' = forms
    /\ forms' = <<>>
    /\ pc' = "while"
    /\ UNCHANGED <<cons_cells, strings, environments, procedures,
                   allocations, marked, gc, log>>
    /\ MarkFrame

(* The marked set is divided by arena and each arena is swept. *)
SweepArenas ==
    /\ pc = "sweep"
    /\ strings' = ArenaSweep(strings, Live(marked, "String"))
    /\ environments' = ArenaSweep(environments, Live(marked, "Environment"))
    /\ cons_cells' = ArenaSweep(cons_cells, Live(marked, "Cons"))
    /\ procedures' = ArenaSweep(procedures, Live(marked, "Procedure"))
    /\ gc' = "collect_garbage"
    /\ pc' = "idle"
    /\ UNCHANGED <<allocations, marked, stack, forms, log>>
    /\ MarkFrame

NextMark ==
    \/ MarkStart
    \/ MarkWhile
    \/ MarkThing
    \/ MarkRefill
    \/ SweepArenas

(* collect_garbage runs on once it is called. *)
SpecMark == InitMark /\ [][NextMark]_vars /\ WF_vars(NextMark)

----------------------------------------------------------------------------
(* Reachability, stated on the heap graph itself: the least set that holds *)
(* the given things and is closed under the references of the objects.     *)

ArenaOf(k) ==
    CASE k = "Cons"        -> cons_cells
      [] k = "String"      -> strings
      [] k = "Environment" -> environments
      [] k = "Procedure"   -> procedures

Kinds == {"Cons", "String", "Environment", "Procedure"}

Things ==
    UNION {{GcThing(k, i) : i \in DOMAIN ArenaOf(k).pool} : k \in Kinds}

InFreeList(g) == g.index \in SeqToSet(ArenaOf(g.kind).free)

Contents(g) == ArenaOf(g.kind).pool[g.index]

Refs(v) == SeqToSet(ToGcThing(v))

PointsTo(g) ==
    CASE g.kind = "Cons" ->
            Refs(cons_cells.pool[g.index].car)
            \cup Refs(cons_cells.pool[g.index].cdr)
      [] g.kind = "Environment" ->
            LET a == environments.pool[g.index] IN
            UNION {Refs(a.vals[k][1]) :
                      k \in {x \in 1 .. Len(a.vals) : a.vals[x] # <<>>}}
            \cup {GcThing("Environment", a.parent[k]) :
                      k \in 1 .. Len(a.parent)}
      [] g.kind = "Procedure" ->
            {GcThing("Environment", procedures.pool[g.index].act[k]) :
                k \in 1 .. Len(procedures.pool[g.index].act)}
      [] OTHER -> {}

RECURSIVE ReachableFrom(_)
ReachableFrom(S) ==
    LET T == S \cup UNION {PointsTo(g) : g \in S} IN
    IF T = S THEN S ELSE ReachableFrom(T)

(* The root set: symbol-table strings, the global activation, every key of *)
(* the root multiset.                                                      *)
RootSet ==
    {GcThing("String", symbol_table[n]) : n \in DOMAIN symbol_table}
    \cup {GcThing("Environment", global_environment)}
    \cup DOMAIN roots

(* The GC things the live Rooted smart pointers wrap. *)
Wrapped == UNION {Refs(h) : h \in Handles}

(* How many live Rooted smart pointers wrap g. *)
RECURSIVE SumCopies(_, _)
SumCopies(B, S) ==
    IF S = {} THEN 0
    ELSE LET h == CHOOSE x \in S : TRUE IN
         CopiesIn(h, B) + SumCopies(B, S \ {h})

WrapCount(g) == SumCopies(rooted, {h \in Handles : g \in Refs(h)})

(* A step that ran collect_garbage: directly or inside on_allocation. *)
Collected == pc = "idle" /\ gc' # ""

OutOfMemoryMessage == "Arena::allocate: out of memory!"

(* The kind of GC thing the allocation in progress takes a slot for. *)
TargetKind ==
    CASE pc = "new_pair"                                -> "Cons"
      [] pc \in {"new_string", "get_or_create_symbol"} -> "String"
      [] pc = "extend"                                  -> "Environment"
      [] pc = "new_procedure"                           -> "Procedure"
      [] OTHER                                          -> "None"

----------------------------------------------------------------------------
(* Properties of the heap.                                                 *)

(* C1: after any collect_garbage, every GC thing that was reachable from   *)
(* the root set at the start of the collection is in the marked set and    *)
(* its slot is not in the free list of its arena.                          *)
C1_ReachableIsMarkedAndKept ==
    [][Collected =>
          \A g \in ReachableFrom(RootSet) :
              g \in marked' /\ ~InFreeList(g)']_vars

(* A collection has marked a thing that is no root itself: it was reached  *)
(* through the references of a procedure.                                  *)
C1_Witness ==
    /\ gc # ""
    /\ \E g \in marked :
          /\ g \notin RootSet
          /\ \E p \in marked : p.kind = "Procedure" /\ g \in PointsTo(p)

(* C2: a GC thing wrapped by a live Rooted, or reachable from one, is      *)
(* never collected: its slot is in no free list after any step, and no     *)
(* Arena::allocate returns it.                                             *)
C2_RootedIsNeverCollected ==
    [][\A g \in ReachableFrom(Wrapped) :
          /\ ~InFreeList(g)'
          /\ ret' # g]_vars

(* An allocation has returned a slot in a call that collected, while a     *)
(* Rooted held another slot of the same arena.                             *)
C2_Witness ==
    /\ ret # NoThing
    /\ allocations = 0
    /\ \E g \in Wrapped : g.kind = ret.kind /\ g # ret

(* C3: after collect_garbage, every slot that is not reachable from the    *)
(* root set is in the free list of its arena, cycles included.             *)
C3_UnreachableIsFreed ==
    gc # "" =>
        \A g \in Things : g \notin ReachableFrom(RootSet) => InFreeList(g)

(* A collection has freed a pair whose cdr is the pair itself. *)
C3_Witness ==
    /\ gc # ""
    /\ \E i \in DOMAIN cons_cells.pool :
          /\ cons_cells.pool[i].cdr = Pair(i)
          /\ InFreeList(GcThing("Cons", i))

(* C4: an allocation panics with out of memory only if a collection ran in *)
(* the same allocation call and left the free list of the target arena     *)
(* empty; never while the target arena has a slot unreachable from the     *)
(* roots.                                                                  *)
C4_OutOfMemoryOnlyAfterCollection ==
    panicked = OutOfMemoryMessage =>
        /\ gc # ""
        /\ TargetKind \in Kinds
        /\ IsFull(ArenaOf(TargetKind))
        /\ \A g \in Things :
              g.kind = TargetKind => g \in ReachableFrom(RootSet)

(* An allocation has panicked. *)
C4_Witness == panicked = OutOfMemoryMessage

(* C5: on_allocation collects when any arena is full; otherwise it adds 1  *)
(* to the counter and collects exactly when the counter is then above      *)
(* MAX_GC_PRESSURE; every collection sets the counter to 0, the collection *)
(* comes before the slot is taken, and the counter is never above          *)
(* MAX_GC_PRESSURE.                                                        *)
C5_CollectionTriggers ==
    [][/\ (pc = "idle" /\ pc' # "idle") =>
             IF AnyArenaIsFull
             THEN gc' # "" /\ allocations' = 0
             ELSE /\ gc' # "" <=> allocations + 1 > MAX_GC_PRESSURE
                  /\ allocations' = IF gc' # "" THEN 0 ELSE allocations + 1
       /\ (pc # "idle" /\ pc' = "idle") =>
             /\ ret' # NoThing
             /\ gc' = ""
             /\ allocations' = allocations
       /\ Collected => allocations' = 0
       /\ allocations' <= MAX_GC_PRESSURE
      ]_vars

(* The counter has passed MAX_GC_PRESSURE with no arena full, and the      *)
(* allocation has collected.                                               *)
C5_Witness ==
    /\ gc = "is_too_much_pressure"
    /\ allocations = 0
    /\ pc = "new_string"

(* C6: the count the root multiset stores for g is the number of live      *)
(* Rooted smart pointers that wrap g, and g is a key exactly when that     *)
(* number is not 0.                                                        *)
C6_RootCountIsHandleCount ==
    /\ DOMAIN roots \subseteq Things
    /\ \A g \in Things :
          /\ RootCount(roots, g) = WrapCount(g)
          /\ g \in DOMAIN roots <=> WrapCount(g) > 0

(* Two smart pointers wrap one thing while another thing has lost its      *)
(* last one.                                                               *)
C6_Witness ==
    /\ \E g \in DOMAIN roots : roots[g] > 1
    /\ ret = NoThing
    /\ \E g \in Things :
          ~InFreeList(g) /\ g \notin RootSet /\ g \notin DOMAIN roots

(* C7: symbols made from equal names hold the same string pointer, symbols *)
(* made from different names hold different string pointers.               *)
C7_SymbolsAreInterned ==
    \A x, y \in issued : (x[1] = y[1]) <=> (x[2] = y[2])

(* Every name has been interned, the last by an allocation that collected. *)
C7_Witness ==
    /\ Cardinality({x[1] : x \in issued}) = Cardinality(Names)
    /\ ret.kind = "String"
    /\ allocations = 0

(* C8: the global activation and every string of the symbol table are in   *)
(* no free list, in every reachable state.                                 *)
C8_GlobalAndSymbolsSurvive ==
    /\ ~InFreeList(GcThing("Environment", global_environment))
    /\ \A n \in DOMAIN symbol_table :
          ~InFreeList(GcThing("String", symbol_table[n]))

(* A collection has run with an empty root multiset and a symbol table     *)
(* that holds a string.                                                    *)
C8_Witness ==
    /\ gc # ""
    /\ DOMAIN roots = {}
    /\ DOMAIN symbol_table # {}

(* C9: collect_garbage does not move or modify surviving objects: what was *)
(* reachable before is reachable after, at the same arena and index, with  *)
(* the same contents; the root multiset, the symbol table and the smart    *)
(* pointers are as before.                                                 *)
C9_CollectionKeepsSurvivors ==
    [][Collected =>
          /\ \A g \in ReachableFrom(RootSet) :
                /\ g \in ReachableFrom(RootSet)'
                /\ Contents(g)' = Contents(g)
                /\ ~InFreeList(g)'
          /\ UNCHANGED <<roots, symbol_table, global_environment, rooted>>
      ]_vars

(* A collection has freed a slot and kept a pair that refers to a pair. *)
C9_Witness ==
    /\ gc # ""
    /\ \E i \in DOMAIN cons_cells.pool :
          /\ GcThing("Cons", i) \in marked
          /\ cons_cells.pool[i].cdr.tag = "Pair"
    /\ \E g \in Things : g \notin marked

----------------------------------------------------------------------------
(* Properties of the evaluator.                                            *)

RECURSIVE Height(_)
Height(m) ==
    CASE m.op = "Definition"  -> 1 + Height(m.value)
      [] m.op = "Lambda"      -> 1 + Height(m.body)
      [] m.op = "Sequence"    ->
            1 + (IF Height(m.first) > Height(m.second)
                 THEN Height(m.first) ELSE Height(m.second))
      [] m.op = "Conditional" ->
            1 + (CHOOSE h \in {Height(m.condition), Height(m.consequent),
                               Height(m.alternative)} :
                    /\ h >= Height(m.condition)
                    /\ h >= Height(m.consequent)
                    /\ h >= Height(m.alternative))
      [] m.op = "Invocation"  ->
            1 + (CHOOSE h \in {Height(m.procedure)}
                              \cup {Height(m.params[k]) :
                                       k \in 1 .. Len(m.params)} :
                    /\ h >= Height(m.procedure)
                    /\ \A k \in 1 .. Len(m.params) : h >= Height(m.params[k]))
      [] OTHER                -> 1

(* Two calls for each level of the text of the procedure: a number that    *)
(* the text fixes, whatever N is.                                          *)
StackBound(shape) == 2 * Height(Lambda(1, LoopBody(shape)))

(* How many times `loop` has been applied: each application took one       *)
(* activation.                                                             *)
Applications == Capacity(environments) - Len(environments.free) - 1

(* C10: while a procedure that calls itself in tail position runs, the     *)
(* number of evaluator calls on the host stack stays below a bound that    *)
(* does not depend on N, and the procedure is applied at most N + 1 times. *)
C10_TailCallsKeepStackBounded ==
    prog.shape \in TailShapes =>
        /\ Len(stack) <= StackBound(prog.shape)
        /\ Applications <= prog.n + 1

(* The longest loop has run to its end: `loop` was applied MaxN + 1 times  *)
(* and the program has returned 0.                                         *)
C10_Witness ==
    /\ prog.shape \in TailShapes
    /\ prog.n = MaxN
    /\ Applications = MaxN + 1
    /\ stack = <<>>
    /\ forms = <<>>
    /\ ctl = Ok(Integer(0))

----------------------------------------------------------------------------
(* Lexical addressing.                                                     *)

(* The activation that i parent links lead to from a, if there are that    *)
(* many.                                                                   *)
RECURSIVE Walk(_, _)
Walk(a, i) ==
    IF i = 0 THEN <<a>>
    ELSE IF environments.pool[a].parent = <<>> THEN <<>>
    ELSE Walk(environments.pool[a].parent[1], i - 1)

(* The activation of the innermost block around a that binds the name, the *)
(* global activation if none does.                                         *)
RECURSIVE Binder(_, _)
Binder(a, name) ==
    IF a = global_environment \/ name \in scope[a].names THEN a
    ELSE Binder(environments.pool[a].parent[1], name)

(* A Reference or a SetVariable that analysis emitted for a name is about  *)
(* to run.                                                                 *)
AddressesName ==
    /\ ctl.mode = "evaluate_to_thunk"
    /\ ctl.m[1].op \in {"Reference", "SetVariable"}
    /\ "name" \in DOMAIN ctl.m[1]

(* C11: the (i, j) of a Reference or SetVariable leads, by i parent links  *)
(* from the activation that runs it, to the activation of the innermost    *)
(* enclosing block that binds the name (the global activation if none      *)
(* does), and j is the slot that holds the name there and no other name.   *)
C11_CoordinatesReachBinder ==
    AddressesName =>
        LET m == ctl.m[1]
            target == Binder(ctl.act, m.name)
            slots == scope[target].slots
        IN  /\ Walk(ctl.act, m.i) = <<target>>
            /\ m.name \in DOMAIN slots =>
                  \A n \in DOMAIN slots : slots[n] = m.j <=> n = m.name

----------------------------------------------------------------------------
(* Application.                                                            *)

(* apply_invocation is about to be called: the head and every argument of  *)
(* the invocation on top of the stack have their values.                   *)
ApplyStep ==
    /\ stack # <<>>
    /\ Top.fn = "evaluate_invocation"
    /\ ctl.mode = "Ok"
    /\ Len(Top.vals) = Len(Top.m.params)

Applied == Head(Append(Top.vals, ctl.val))
Arguments == Tail(Append(Top.vals, ctl.val))

AppliesProcedure == ApplyStep /\ Applied.tag = "Procedure"

(* The activation in which evaluate_lambda made the procedure. *)
CapturedBy(p) ==
    LET made == {k \in 1 .. Len(log) :
                    log[k].event = "new_procedure" /\ log[k].val = p}
    IN  log[CHOOSE k \in made : \A other \in made : other <= k].act

(* The loop is between two forms, with k forms left, or at its end. *)
Finished(k) ==
    /\ stack = <<>>
    /\ ctl.mode \in {"Ok", "Err"}
    /\ Len(forms) = k

(* C12: applying a procedure to as many arguments as its arity takes an    *)
(* activation from the free list, makes its parent the activation in which *)
(* the lambda was evaluated and its slots the arguments in order, leaves   *)
(* every other activation as it was, and continues with the body in it; so *)
(* ((add a) b) is a - b whatever the global x is, and the closures of two  *)
(* calls of k yield the 1 and the 2 they were called with.                 *)
C12_ApplyExtendsCapturedActivation ==
    [][/\ (AppliesProcedure
            /\ procedures.pool[Applied.index].arity = Len(Arguments)) =>
             LET new == ctl'.act IN
             /\ ctl'.mode = "Thunk"
             /\ ctl'.m = procedures.pool[Applied.index].body
             /\ new \in SeqToSet(environments.free)
             /\ new \notin SeqToSet(environments'.free)
             /\ environments'.pool[new].parent = <<CapturedBy(Applied)>>
             /\ environments'.pool[new].vals =
                   [k \in 1 .. Len(Arguments) |-> <<Arguments[k]>>]
             /\ \A a \in DOMAIN environments.pool \ {new} :
                   environments'.pool[a] = environments.pool[a]
       /\ (prog.shape = "closure" /\ Finished(0)') =>
             ctl' = Ok(Integer(prog.n - prog.k))
       /\ (prog.shape = "counter" /\ Finished(1)') => ctl' = Ok(Integer(1))
       /\ (prog.shape = "counter" /\ Finished(0)') => ctl' = Ok(Integer(2))
      ]_vars

(* The closure that (add a) returned has been applied where the global     *)
(* activation is the caller: its body is about to run in an activation     *)
(* whose parent is not the caller's.                                       *)
C12_Witness ==
    /\ prog.shape = "closure"
    /\ ctl.mode = "Thunk"
    /\ stack # <<>> /\ Top.act = global_environment
    /\ environments.pool[ctl.act].parent # <<global_environment>>
    /\ environments.pool[ctl.act].vals = <<<<Integer(prog.k)>>>>

(* evaluate_to_thunk has been called on the body of a procedure. *)
BodyHasRun(history) ==
    \E k \in 1 .. Len(history) :
        /\ history[k].event = "evaluate_to_thunk"
        /\ "block" \in DOMAIN history[k].m

(* C13: applying a procedure of arity k to n arguments fails with the      *)
(* too-few error when n < k and with the too-many error when n > k; the    *)
(* failing step creates no activation, and ((lambda (p1 .. pk) 0) 1 .. n)  *)
(* ends with that error without its body having run.                       *)
C13_ArityMismatchFails ==
    [][/\ (AppliesProcedure
            /\ procedures.pool[Applied.index].arity # Len(Arguments)) =>
             /\ ctl' = Err(IF Len(Arguments) < procedures.pool[Applied.index].arity
                           THEN "Too few arguments passed"
                           ELSE "Too many arguments passed")
             /\ environments' = environments
       /\ (prog.shape = "arity" /\ Finished(0)') =>
             IF prog.n = prog.k
             THEN ctl' = Ok(Integer(0)) /\ BodyHasRun(log')
             ELSE /\ ctl' = Err(IF prog.n < prog.k
                                THEN "Too few arguments passed"
                                ELSE "Too many arguments passed")
                  /\ ~BodyHasRun(log')
                  /\ environments'.free = Range(0, global_environment)
      ]_vars

(* A procedure of two parameters was applied to one argument, and the loop *)
(* has reported the error.                                                 *)
C13_Witness ==
    /\ prog.shape = "arity"
    /\ prog.n < prog.k
    /\ prog.n > 0
    /\ Finished(0)
    /\ ctl = Err("Too few arguments passed")
    /\ \E k \in 1 .. Len(log) : log[k].event = "apply_invocation"

----------------------------------------------------------------------------
(* Conditionals.                                                           *)

(* The condition of the conditional on top of the stack has its value. *)
ConditionDone == Returning("evaluate_conditional", "Ok")

(* How often evaluate_to_thunk was called on the meaning m. *)
Dispatched(history, m) ==
    Cardinality({k \in 1 .. Len(history) :
                    /\ history[k].event = "evaluate_to_thunk"
                    /\ history[k].m = m})

(* C14: when the condition of (if c t e) has its value, evaluation goes on *)
(* with e exactly when that value is Boolean(false) and with t for every   *)
(* other value; (if C 1 2) is 2 for the C that are false and 1 for 0, (),  *)
(* a symbol, a procedure and #t, and exactly one of the two branches is    *)
(* evaluated, once.                                                        *)
C14_ConditionalSelectsBranch ==
    [][/\ ConditionDone =>
             /\ ctl'.mode = "Thunk"
             /\ ctl'.act = Top.act
             /\ ctl'.m = <<IF ctl.val = Boolean(FALSE)
                           THEN Top.m.alternative
                           ELSE Top.m.consequent>>
       /\ (prog.shape = "if" /\ Finished(0)') =>
             /\ ctl' = Ok(Integer(IF prog.c \in {"#f", "(= 0 3)"}
                                  THEN 2 ELSE 1))
             /\ Dispatched(log', Quotation(Integer(1)))
                  + Dispatched(log', Quotation(Integer(2))) = 1
             /\ Dispatched(log', Quotation(ctl'.val)) = 1
      ]_vars

(* (if '() 1 2) has chosen its consequent: the condition is the empty list *)
(* and the loop has reported 1.                                            *)
C14_Witness ==
    /\ prog.shape = "if"
    /\ prog.c = "()"
    /\ Finished(0)
    /\ ctl = Ok(Integer(1))
    /\ \E k \in 1 .. Len(log) : log[k].event = "Ok" /\ log[k].val = EmptyList

----------------------------------------------------------------------------
(* Invocations.                                                            *)

(* The place in the history of the first event of this kind for m; 0 when  *)
(* there is none.                                                          *)
FirstEvent(history, event, m) ==
    LET at == {k \in 1 .. Len(history) :
                  history[k].event = event /\ history[k].m = m}
    IN  IF at = {} THEN 0 ELSE CHOOSE k \in at : \A other \in at : k <= other

(* The meanings of the head and the two arguments of (H A B). *)
OrderHead == Named(Reference(0, IF prog.c = "-" THEN PrimitiveSlot("-")
                                ELSE Len(PrimitiveNames)), prog.c)
OrderArgument(k, fails) ==
    IF fails
    THEN Invocation(Named(Reference(0, PrimitiveSlot("/")), "/"),
                    <<Quotation(Integer(k)), Quotation(Integer(0))>>)
    ELSE Quotation(Integer(k))
OrderA == OrderArgument(1, prog.n = 1)
OrderB == OrderArgument(2, prog.k = 1)
OrderCall == Invocation(OrderHead, <<OrderA, OrderB>>)

(* C15: an invocation evaluates its head first and then its arguments from *)
(* left to right, each after the one before it has returned; when the head *)
(* or an argument fails, the invocation fails with that error at once: no  *)
(* later argument is evaluated and the procedure is not applied.           *)
C15_HeadThenArgumentsInOrder ==
    [][/\ Entering("Invocation") =>
             ctl' = Call(ctl.m[1].procedure, ctl.act)
       /\ (Returning("evaluate_invocation", "Ok")
            /\ Len(Top.vals) < Len(Top.m.params)) =>
             /\ ctl' = Call(Top.m.params[Len(Top.vals) + 1], Top.act)
             /\ Top'.vals = Append(Top.vals, ctl.val)
             /\ log' = log
       /\ Returning("evaluate_invocation", "Err") =>
             /\ ctl' = ctl
             /\ stack' = Pop
             /\ log' = log
       /\ (prog.shape = "order" /\ Finished(0)') =>
             LET at(event, m) == FirstEvent(log', event, m)
                 headFails == prog.c = "u"
                 aFails == prog.n = 1
                 bFails == prog.k = 1
             IN  /\ at("evaluate_to_thunk", OrderCall) = 1
                 /\ at("evaluate_to_thunk", OrderHead) = 2
                 /\ IF headFails
                    THEN /\ ctl' = Err("Reference to variable that hasn't been defined")
                         /\ at("evaluate_to_thunk", OrderA) = 0
                         /\ at("evaluate_to_thunk", OrderB) = 0
                         /\ at("apply_invocation", OrderCall) = 0
                    ELSE /\ at("Ok", OrderHead) = 3
                         /\ at("evaluate_to_thunk", OrderA) = 4
                         /\ IF aFails
                            THEN /\ ctl' = Err("Error: divide by zero")
                                 /\ at("Ok", OrderA) = 0
                                 /\ at("evaluate_to_thunk", OrderB) = 0
                                 /\ at("apply_invocation", OrderCall) = 0
                            ELSE /\ at("Ok", OrderA) = 5
                                 /\ at("evaluate_to_thunk", OrderB) = 6
                                 /\ IF bFails
                                    THEN /\ ctl' = Err("Error: divide by zero")
                                         /\ at("Ok", OrderB) = 0
                                         /\ at("apply_invocation", OrderCall) = 0
                                    ELSE /\ ctl' = Ok(Integer(-1))
                                         /\ at("Ok", OrderB) = 7
                                         /\ at("apply_invocation", OrderCall) = 8
      ]_vars

(* (- (/ 1 0) 2) has failed in its first argument: the head has its value, *)
(* the second argument was never evaluated.                                *)
C15_Witness ==
    /\ prog.shape = "order"
    /\ prog.c = "-"
    /\ prog.n = 1
    /\ prog.k = 0
    /\ Finished(0)
    /\ ctl = Err("Error: divide by zero")
    /\ FirstEvent(log, "Ok", OrderHead) > 0
    /\ FirstEvent(log, "evaluate_to_thunk", OrderA) > 0
    /\ FirstEvent(log, "evaluate_to_thunk", OrderB) = 0

----------------------------------------------------------------------------
(* Sequences.                                                              *)

(* The meaning of the k-th form of (begin e1 .. en). *)
BeginForm(k) == OrderArgument(k, k = prog.k)

(* C16: (begin e1 .. en) evaluates e1 .. en in this order, each after the  *)
(* one before it has returned, and its value is the value of en; a begin   *)
(* of one form is analyzed to the meaning of that form; when ek fails the  *)
(* begin fails with that error and no later form is evaluated.             *)
C16_BeginInOrder ==
    [][/\ Entering("Sequence") => ctl' = Call(ctl.m[1].first, ctl.act)
       /\ Returning("evaluate_sequence", "Ok") =>
             /\ ctl' = TrampolineThunk(Top.act, Top.m.second)
             /\ stack' = Pop
       /\ Returning("evaluate_sequence", "Err") =>
             /\ ctl' = ctl
             /\ stack' = Pop
             /\ log' = log
       /\ (prog.shape = "begin" /\ prog.n = 1 /\ forms # <<>>) =>
             /\ Analyze(environment, Head(forms))
                  = Analyze(environment, NumberOrFails(1, prog.k = 1))
             /\ Analyze(environment, Head(forms)).m = <<BeginForm(1)>>
       /\ (prog.shape = "begin" /\ Finished(0)') =>
             LET at(event, m) == FirstEvent(log', event, m)
                 failing == prog.k \in 1 .. prog.n
                 last == IF failing THEN prog.k ELSE prog.n
             IN  /\ ctl' = IF failing THEN Err("Error: divide by zero")
                           ELSE Ok(Integer(prog.n))
                 /\ \A k \in 1 .. prog.n :
                       /\ Dispatched(log', BeginForm(k))
                            = IF k <= last THEN 1 ELSE 0
                       /\ k < last =>
                             /\ at("evaluate_to_thunk", BeginForm(k))
                                  < at("Ok", BeginForm(k))
                             /\ at("Ok", BeginForm(k))
                                  < at("evaluate_to_thunk", BeginForm(k + 1))
                       /\ (k = last /\ failing) => at("Ok", BeginForm(k)) = 0
      ]_vars

(* (begin 1 (/ 2 0) 3) has failed in its second form: the first has its    *)
(* value and the third was never evaluated.                                *)
C16_Witness ==
    /\ prog.shape = "begin"
    /\ prog.n = 3
    /\ prog.k = 2
    /\ Finished(0)
    /\ ctl = Err("Error: divide by zero")
    /\ FirstEvent(log, "Ok", BeginForm(1)) > 0
    /\ Dispatched(log, BeginForm(2)) = 1
    /\ Dispatched(log, BeginForm(3)) = 0

----------------------------------------------------------------------------
(* Forward references to globals.                                          *)

ForwardPrograms == {"forward", "forward-set"}

(* The slot the global block of the environment has for x. *)
SlotOfX(env) == env[1]["x"]

(* The calls of evaluate_to_thunk on a meaning that names x. *)
MentionsOfX(history) ==
    {k \in 1 .. Len(history) :
        /\ history[k].event = "evaluate_to_thunk"
        /\ "name" \in DOMAIN history[k].m
        /\ history[k].m.name = "x"}

Undefined == Err("Reference to variable that hasn't been defined")

(* C17: a global that is referenced before its definition gets a slot of   *)
(* the global block when the reference is analyzed, the first free one;    *)
(* the later top-level define binds that same slot, and every reference,   *)
(* assignment and definition of the name addresses it in the global        *)
(* activation. x and (get) fail with the undefined-variable error before   *)
(* (define x 5) has run and are 5 after it; (put) fails before it and      *)
(* sets x to 6 after it.                                                   *)
C17_ForwardReferenceSharesSlot ==
    [][prog.shape \in ForwardPrograms =>
         /\ ("x" \notin DOMAIN environment[1] /\ "x" \in DOMAIN environment'[1])
               => /\ SlotOfX(environment') = BlockLen(environment[1])
                  /\ Len(forms) = Len(Source(prog))
                  /\ Len(environments.pool[global_environment].vals)
                        <= SlotOfX(environment')
         /\ "x" \in DOMAIN environment[1] =>
               /\ "x" \in DOMAIN environment'[1]
               /\ SlotOfX(environment') = SlotOfX(environment)
         /\ \A k \in MentionsOfX(log') :
               /\ log'[k].m.j = SlotOfX(environment')
               /\ Walk(log'[k].act, log'[k].m.i) = <<global_environment>>
         /\ (Returning("evaluate_definition", "Ok") /\ Top.m.name = "x") =>
               environments'.pool[global_environment]
                     .vals[SlotOfX(environment) + 1] = <<Integer(5)>>
         /\ prog.shape = "forward" =>
               /\ Finished(5)' => ctl' = Undefined
               /\ Finished(3)' => ctl' = Undefined
               /\ Finished(1)' => ctl' = Ok(Integer(5))
               /\ Finished(0)' => ctl' = Ok(Integer(5))
         /\ prog.shape = "forward-set" =>
               /\ Finished(3)' =>
                     ctl' = Err("Cannot set variable before it has been defined")
               /\ Finished(1)' => ctl'.mode = "Ok"
               /\ Finished(0)' => ctl' = Ok(Integer(6))
      ]_vars

(* (get) has returned 5: the same invocation failed before (define x 5)    *)
(* was evaluated.                                                          *)
C17_Witness ==
    /\ prog.shape = "forward"
    /\ Finished(1)
    /\ ctl = Ok(Integer(5))
    /\ \E k \in 1 .. Len(log) :
          /\ log[k].event = "Err"
          /\ log[k].err = Undefined.err
          /\ "op" \in DOMAIN log[k].m
          /\ log[k].m.op = "Invocation"
          /\ \E later \in k + 1 .. Len(log) :
                /\ log[later].event = "Ok"
                /\ log[later].m = log[k].m
                /\ log[later].val = Integer(5)

----------------------------------------------------------------------------
(* Assignment.                                                             *)

(* The value of a SetVariable has been evaluated and the activation it     *)
(* addresses exists: Activation::update is about to look at the slot.      *)
UpdateStep ==
    /\ Returning("evaluate_set_variable", "Ok")
    /\ Walk(Top.act, Top.m.i) # <<>>

UpdateTarget == Walk(Top.act, Top.m.i)[1]

(* Slot j of the activation exists and holds a value. *)
Bound(activation, j) ==
    /\ j < Len(activation.vals)
    /\ activation.vals[j + 1] # <<>>

NotYetDefined == Err("Cannot set variable before it has been defined")

(* C18: a SetVariable whose slot is bound replaces the value of that slot  *)
(* and changes no other slot of any activation; one whose slot is beyond   *)
(* the slots of the activation or is unbound fails with the                *)
(* cannot-set-before-defined error and changes no activation: nothing is   *)
(* written and no slot is added.                                           *)
C18_SetVariableWritesBoundSlot ==
    [][/\ UpdateStep =>
             LET before == environments.pool[UpdateTarget]
                 j == Top.m.j
             IN  IF Bound(before, j)
                 THEN /\ ctl'.mode = "Value"
                      /\ environments' =
                            [environments EXCEPT
                                !.pool[UpdateTarget].vals[j + 1] = <<ctl.val>>]
                 ELSE /\ ctl' = NotYetDefined
                      /\ environments' = environments
       /\ (prog.shape = "set" /\ Finished(1)') =>
             /\ ctl' = Ok(Integer(3))
             /\ environments'.pool[global_environment]
                   .vals[Len(PrimitiveNames) + 1] = <<Integer(3)>>
       /\ (prog.shape = "unbound-set" /\ Finished(1)') =>
             /\ ctl' = NotYetDefined
             /\ Len(environments'.pool[global_environment].vals)
                   = Len(PrimitiveNames)
       /\ (prog.shape = "unbound-set" /\ Finished(0)') => ctl' = Undefined
      ]_vars

(* (put) has failed before (define x 5): the slot of x is within the slots *)
(* of the global activation, (define put ..) having filled up to its own   *)
(* slot, and is still unbound.                                             *)
C18_Witness ==
    /\ prog.shape = "forward-set"
    /\ Finished(3)
    /\ ctl = NotYetDefined
    /\ SlotOfX(environment)
          < Len(environments.pool[global_environment].vals)
    /\ ~Bound(environments.pool[global_environment], SlotOfX(environment))

----------------------------------------------------------------------------
(* Variable references.                                                    *)

(* evaluate_reference is about to call Activation::fetch. *)
FetchStep == Entering("Reference")

(* What fetch returns for the slot it is asked for, when the activation i  *)
(* links up exists.                                                        *)
FetchResult ==
    LET target == environments.pool[Walk(ctl.act, ctl.m[1].i)[1]]
        j == ctl.m[1].j
    IN  IF Bound(target, j) THEN TrampolineValue(target.vals[j + 1][1])
        ELSE Undefined

(* C19, as stated: fetch(i, j) gives the value of slot j of the activation *)
(* i parent links up when the slot exists and is bound, and an error in    *)
(* every other case, fewer than i parent links among them, which the       *)
(* evaluation of the Reference reports as a reference to an undefined      *)
(* variable; no activation changes.                                        *)
C19_FetchErrInEveryOtherCase ==
    [][FetchStep =>
         /\ ctl' = IF Walk(ctl.act, ctl.m[1].i) = <<>> THEN Undefined
                   ELSE FetchResult
         /\ panicked' = panicked
         /\ environments' = environments
      ]_vars

(* C19, amended: fetch(i, j) gives the value of slot j of the activation i *)
(* parent links up when the slot exists and is bound, and an error, which  *)
(* the evaluation of the Reference reports as a reference to an undefined  *)
(* variable, when the slot is beyond the slots of that activation or is    *)
(* unbound; with fewer than i parent links it panics with                  *)
(* "Activation::fetch: i out of bounds"; no activation changes.            *)
C19_FetchErrOrPanic ==
    [][/\ FetchStep =>
             /\ IF Walk(ctl.act, ctl.m[1].i) = <<>>
                THEN /\ panicked' = "Activation::fetch: i out of bounds"
                     /\ ctl'.mode = "panic"
                ELSE /\ ctl' = FetchResult
                     /\ panicked' = panicked
             /\ environments' = environments
       /\ (prog.shape = "fetch" /\ Finished(0)') =>
             ctl' = CASE prog.n = 0 /\ prog.k = 0 -> Ok(Integer(7))
                      [] prog.n = 0 /\ prog.k = 2 -> Ok(Integer(8))
                      [] prog.n = 1 /\ prog.k < Len(PrimitiveNames) ->
                            Ok(PrimitiveVal(prog.k))
                      [] OTHER -> Undefined
      ]_vars

(* Reference(2, j) was evaluated in the activation of the call, which has  *)
(* one parent: the program has panicked in fetch.                          *)
C19_Witness ==
    /\ prog.shape = "fetch"
    /\ prog.n = 2
    /\ panicked = "Activation::fetch: i out of bounds"
    /\ ctl.mode = "panic"
    /\ environments.pool[global_environment].parent = <<>>

----------------------------------------------------------------------------
(* Quotations and collection.                                              *)

(* The object a value points to is allocated: its index is not on the free *)
(* list of its arena. Values that are no GC things always are.             *)
Allocated(v, conses, strs, procs) ==
    CASE v.tag = "Pair" -> v.index \notin SeqToSet(conses.free)
      [] v.tag \in {"String", "Symbol"} -> v.index \notin SeqToSet(strs.free)
      [] v.tag = "Procedure" -> v.index \notin SeqToSet(procs.free)
      [] OTHER -> TRUE

(* C20: while the Meaning of a (quote x) exists, the value x it was made   *)
(* from is a root and its object stays allocated and is not changed by a   *)
(* collection, whether or not anything else holds it; every evaluation of  *)
(* the Meaning returns that very value.                                    *)
C20_QuotationIsRootedAndIdentical ==
    [][QuotationExists =>
         /\ Allocated(Quoted, cons_cells, strings, procedures)
         /\ ToGcThing(Quoted) # <<>> => ToGcThing(Quoted)[1] \in DOMAIN roots
         /\ forms' = forms =>
               /\ Allocated(Quoted, cons_cells', strings', procedures')
               /\ (gc' # "" /\ Quoted.tag = "Pair") =>
                     cons_cells'.pool[Quoted.index]
                        = cons_cells.pool[Quoted.index]
               /\ \A k \in 1 .. Len(log') : log'[k].val = Quoted
               /\ Len(log') > Len(log) =>
                     /\ Quoted \in BagToSet(rooted')
                     /\ ToGcThing(Quoted) # <<>> =>
                           roots'[ToGcThing(Quoted)[1]]
                              = roots[ToGcThing(Quoted)[1]] + 1
      ]_vars

(* The Meaning of a quoted pair was evaluated twice; the second time       *)
(* nothing but the Meaning held the pair and a collection had just run.    *)
C20_Witness ==
    /\ QuotationExists
    /\ Quoted.tag = "Pair"
    /\ Len(log) = 2
    /\ log[2].collected
    /\ ~log[2].held
    /\ log[1].val = log[2].val

----------------------------------------------------------------------------
(* Procedure bodies and the roots.                                         *)

(* How many smart pointers of the client wrap the value. *)
HeldByClient(v) == CopiesIn(v, rooted)

(* The procedure slots that are allocated and whose body quotes the value. *)
LiveBodiesQuoting(v) ==
    {p \in DOMAIN procedures.pool :
        /\ p \notin SeqToSet(procedures.free)
        /\ v \in BodyQuoted(procedures, p)}

(* C21: the root multiset counts a pair once for every smart pointer of    *)
(* the client, once for the Meaning that quotes it, and once for every     *)
(* body of an allocated procedure that quotes it: a procedure whose slot a *)
(* collection has reclaimed keeps nothing rooted through its body.         *)
C21_CollectedBodyKeepsNoRoot ==
    \A c \in DOMAIN cons_cells.pool :
        RootCount(roots, GcThing("Cons", c))
           = HeldByClient(Pair(c))
             + (IF QuotationExists /\ Quoted = Pair(c) THEN 1 ELSE 0)
             + Cardinality(LiveBodiesQuoting(Pair(c)))

----------------------------------------------------------------------------
(* Equality of values.                                                     *)

(* Every value there can be on this heap, held or not. *)
EqUniverse ==
    Immediates
    \cup {Pair(i) : i \in DOMAIN cons_cells.pool}
    \cup {StringVal(i) : i \in DOMAIN strings.pool}
    \cup {Symbol(i) : i \in DOMAIN strings.pool}
    \cup {ProcedureVal(i) : i \in DOMAIN procedures.pool}
    \cup {PrimitiveVal(0), PrimitiveVal(1)}

(* C22: eq? is reflexive, symmetric and transitive; heap-backed values are *)
(* equal exactly when they are the same variant with the same index in the *)
(* same arena, so two pairs allocated separately are not eq? even when     *)
(* their car and cdr are equal; immediates are equal exactly when they are *)
(* the same variant with equal contents; and eq? answers accordingly.      *)
C22_EqIsIdentity ==
    /\ \A a, b \in EqUniverse :
          /\ ValueEq(a, a)
          /\ ValueEq(a, b) <=> ValueEq(b, a)
          /\ ValueEq(a, b) =>
                \A c \in EqUniverse : ValueEq(b, c) => ValueEq(a, c)
          /\ (a.tag \in HeapBacked /\ b.tag \in HeapBacked) =>
                (ValueEq(a, b) <=> (a.tag = b.tag /\ a.index = b.index))
          /\ (a \in Immediates /\ b \in Immediates) =>
                (ValueEq(a, b) <=> a = b)
          /\ (a \in Immediates /\ b.tag \in HeapBacked) => ~ValueEq(a, b)
    /\ \A a, b \in PairHandles :
          (a # b /\ cons_cells.pool[a.index] = cons_cells.pool[b.index])
             => ~ValueEq(a, b)
    /\ (ctl.mode = "Value" /\ log # <<>>) =>
          ctl.val = Boolean(log[1].a = log[1].b)

(* eq? was called on the two pairs, whose car and cdr are the same, and    *)
(* has answered #f.                                                        *)
C22_Witness ==
    /\ ctl = TrampolineValue(Boolean(FALSE))
    /\ log # <<>>
    /\ log[1].a \in PairHandles
    /\ log[1].b \in PairHandles
    /\ log[1].a # log[1].b
    /\ cons_cells.pool[log[1].a.index] = cons_cells.pool[log[1].b.index]

----------------------------------------------------------------------------
(* Determinism of evaluation.                                              *)

(* The steps of the evaluator within one form. *)
MeaningSteps ==
    \/ MeaningEvaluate
    \/ TrampolineRun
    \/ TryReturn
    \/ EvaluateQuotation
    \/ EvaluateReference
    \/ EvaluateDefinition
    \/ EvaluateSetVariable
    \/ EvaluateConditional
    \/ EvaluateSequence
    \/ EvaluateLambda
    \/ EvaluateInvocation

----------------------------------------------------------------------------
(* Batch mode.                                                             *)

(* The steps of main in the history. *)
MainEvents ==
    SelectSeq(log, LAMBDA e : e.event \in {"evaluate_file", "form", "stderr"})

(* The steps of a run without an error: every file in the order of the     *)
(* command line, every form in the order of its file.                      *)
RECURSIVE AllFiles(_)
AllFiles(n) ==
    IF n = 0 THEN <<>>
    ELSE AllFiles(n - 1)
         \o <<MainEvent("evaluate_file", n, 0, "")>>
         \o [k \in 1 .. Len(prog.files[n].items) |->
                MainEvent("form", n, k, "")]

IsPrefix(a, b) == Len(a) <= Len(b) /\ a = SubSeq(b, 1, Len(a))

(* An error has come back to main. *)
ErrorInMain == pc \in {"file", "exit"} /\ stack = <<>> /\ ctl.mode = "Err"

(* C24: in batch mode the files are evaluated in the order of the command  *)
(* line; the first error of any kind is written to stderr, nothing is      *)
(* evaluated after it, the read-eval loop is not started and the exit      *)
(* status is not zero; without an error every form of every file is        *)
(* evaluated and the exit status is zero.                                  *)
C24_BatchStopsAtFirstError ==
    LET written == {k \in 1 .. Len(log) : log[k].event = "stderr"} IN
    /\ prog.files # <<>> => pc # "repl"
    /\ IsPrefix(SelectSeq(MainEvents, LAMBDA e : e.event # "stderr"),
                AllFiles(Len(prog.files)))
    /\ written # {} => ErrorInMain /\ pc = "exit"
    /\ (ErrorInMain /\ pc = "exit") =>
          /\ written = {Len(log)}
          /\ log[Len(log)].err = ctl.err
          /\ ret # <<>>
          /\ ret[1] # 0
    /\ (pc = "exit" /\ ~ErrorInMain) =>
          /\ MainEvents = AllFiles(Len(prog.files))
          /\ ret = <<0>>

----------------------------------------------------------------------------
(* Errors at the read-eval-print loop.                                     *)

(* What the loop has written so far. *)
Output ==
    SelectSeq(log, LAMBDA e : e.event \in {"print", "Error: "})

(* What the definitions made so far consist of: the global activation and  *)
(* everything it leads to.                                                 *)
Definitions == ReachableFrom({GcThing("Environment", global_environment)})

(* An evaluation error has come back to the loop. *)
ErrorAtLoop == pc = "idle" /\ stack = <<>> /\ ctl.mode = "Err"

(* The loop has just written an error and the reader has another form. *)
AfterError ==
    /\ pc = "idle"
    /\ ctl.mode = "idle"
    /\ log # <<>>
    /\ log[Len(log)].event = "Error: "
    /\ forms # <<>>

(* The forward program is through: x, (define get (lambda () x)), (get),   *)
(* (define x 5), (get), x.                                                 *)
ForwardDone == prog.shape = "forward" /\ pc = "exit"

(* C25: at the read-eval-print loop an evaluation error ends the current   *)
(* cycle only: it is written as "Error: " and the message, the loop is not *)
(* left and turns to the next form, and the names defined and the values   *)
(* bound before are as they were.                                          *)
C25_ErrorEndsOnlyTheCycle ==
    [][/\ ErrorAtLoop =>
             /\ log' = Append(log, Event("Error: ", <<>>, 0, EmptyList,
                                         ctl.err))
             /\ pc' = "idle"
             /\ ctl'.mode = "idle"
             /\ UNCHANGED <<forms, environment, global_environment>>
             /\ \A g \in Definitions :
                   /\ g \in Definitions'
                   /\ Contents(g)' = Contents(g)
                   /\ ~InFreeList(g)'
       /\ (ctl.mode = "Err" /\ stack # <<>>) =>
             /\ ctl' = ctl
             /\ UNCHANGED <<forms, environment, environments, procedures>>
       /\ AfterError =>
             /\ pc' = "idle"
             /\ forms' = Tail(forms)
             /\ ctl'.mode \in {"evaluate", "Err"}
             /\ ctl'.mode = "evaluate" =>
                   ctl' = Call(Analyze(environment, Head(forms)).m[1],
                               global_environment)
       /\ ForwardDone' =>
             /\ [k \in 1 .. Len(Output') |-> Output'[k].event]
                   = <<"Error: ", "print", "Error: ", "print", "print",
                       "print">>
             /\ Output'[5].val = Integer(5)
             /\ Output'[6].val = Integer(5)
      ]_vars

(* The second error of the forward program has been written, with get      *)
(* defined before it; afterwards x was defined and (get) has answered 5.   *)
C25_Witness ==
    /\ prog.shape = "forward"
    /\ Len(Output) = 5
    /\ Output[3].event = "Error: "
    /\ Output[5] = Event("print", <<>>, 0, Integer(5), "")

----------------------------------------------------------------------------
(* Printing.                                                               *)

(* The outermost print has returned. *)
PrintDone == pc = "done"

(* The step is a call of print_pair. *)
CallsPrintPair ==
    /\ pc = "print"
    /\ stack # <<>>
    /\ PrintTop.op = "print_pair"

(* The step is a call of print_pair on a cell that is in seen. *)
MeetsAgain == CallsPrintPair /\ PrintTop.val.index \in marked

----------------------------------------------------------------------------
(* The primitive apply.                                                    *)

(* What the invocation (f 1 .. n) comes to. *)
Outcome ==
    CASE prog.c = "primitive" ->
            IF prog.n = 2 THEN Ok(Integer(1 - 2))
            ELSE Err("Error: bad arguments")
      [] prog.c = "number" -> Err("Expected a procedure")
      [] OTHER ->
            IF prog.k < prog.n THEN Err("Too many arguments passed")
            ELSE IF prog.k > prog.n THEN Err("Too few arguments passed")
            ELSE IF prog.k = 0 THEN Ok(Integer(7))
            ELSE Ok(Integer(prog.n))

(* The evaluation has returned to its caller. *)
Returned == stack = <<>> /\ ctl.mode \in {"Ok", "Err"}

(* The step is the call of the primitive apply. *)
CallsApply ==
    /\ Returning("evaluate_invocation", "Ok")
    /\ Len(Top.vals) = Len(Top.m.params)
    /\ Head(Append(Top.vals, ctl.val)) = ApplyPrimitive

----------------------------------------------------------------------------
(* Static errors.                                                          *)

(* The special form has the wrong number of parts, or the name it defines  *)
(* or sets, or one of its parameters, is not a symbol.                     *)
Malformed(form) ==
    LET keyword == form.items[1].name
        parts == Len(form.items)
    IN  CASE keyword = "quote" -> parts # 2
          [] keyword = "if"    -> parts # 4
          [] keyword \in {"define", "set!"} ->
                parts # 3 \/ form.items[2].form # "symbol"
          [] keyword = "lambda" ->
                \/ parts < 3
                \/ /\ form.items[2].form = "list"
                   /\ \E k \in 1 .. Len(form.items[2].items) :
                         form.items[2].items[k].form # "symbol"
          [] keyword = "begin" -> parts < 2

(* The errors of analysis. *)
StaticErrors ==
    {"Static error: Wrong number of parts in quoted form",
     "Static error: improperly formed definition",
     "Static error: can only define symbols",
     "Static error: improperly formed set! expression",
     "Static error: can only set! symbols",
     "Lambda is missing body",
     "Bad lambda parameters",
     "Can only define symbol parameters",
     "Static error: improperly formed if expression",
     "Static error: improperly formed sequence",
     "Static error: Cannot evaluate"}

(* analyze has returned. *)
AnalysisDone == prog.shape = "analyze" /\ forms = <<>>

(* C28: analyze fails with a static error and yields no Meaning when a     *)
(* special form has the wrong number of parts (quote 2, if 4, define and   *)
(* set! 3, lambda at least 3, begin at least one form after the keyword)   *)
(* or when the name of a define or set! or a parameter of a lambda is not  *)
(* a symbol.                                                               *)
C28_MalformedFormsFail ==
    (AnalysisDone /\ Malformed(prog.form)) =>
        /\ ctl.mode = "Err"
        /\ ctl.m = <<>>
        /\ ctl.err \in StaticErrors

(* (define 1 1) was analyzed. *)
C28_Witness ==
    /\ AnalysisDone
    /\ prog.form = List(<<Sym("define"), Num(1), Num(1)>>)
    /\ ctl = Err("Static error: can only define symbols")

----------------------------------------------------------------------------
(* Slots of the static Environment *)

(* Two names of one block with one slot. *)
SharedSlot(bindings) ==
    \E x \in DOMAIN bindings : \E y \in DOMAIN bindings :
        x # y /\ bindings[x] = bindings[y]

(* C29: after any sequence of extend, pop, define and define_global calls  *)
(* on the static environment, within one block two different names never   *)
(* map to the same slot.                                                   *)
C29_SlotsAreDistinct ==
    prog.shape = "environment" =>
        \A k \in 1 .. Len(environment) : ~SharedSlot(environment[k])

(* The call the step makes. *)
MethodCalled == Head(log')

(* The argument of a define or define_global. *)
CalledName == MethodCalled.names[1]

(* No name occurs twice in the vector. *)
Distinct(names) ==
    \A a \in 1 .. Len(names) : \A b \in 1 .. Len(names) :
        names[a] = names[b] => a = b

(* The slot holds the k-th of the values an activation is extended with:   *)
(* Activation::extend keeps the order, and fetch(0, j) reads vals[j].      *)
ArgumentSlot(n, k, slot) ==
    LET values == [x \in 1 .. n |-> Integer(x)]
    IN  Fetch((0 :> Extend(<<>>, values)), 0, 0, slot) = <<values[k]>>

(* The blocks below the youngest one are the same after the step. *)
OlderBlocksKept(depth) ==
    \A k \in 1 .. depth : environment'[k] = environment[k]

(* C30: define(name) returns (0, slot); for a name that is not in the      *)
(* innermost block the slot is the size of the block before the call and   *)
(* the block grows by that one name; for a name that is in the innermost   *)
(* block it is the existing slot and nothing changes. extend(names) with   *)
(* distinct names pushes a block that gives the i-th name slot i (from 0), *)
(* the slot of the i-th argument of an activation.                         *)
C30_DefineNumbersSlots ==
    [][prog.shape = "environment" =>
         LET depth == Len(environment)
             youngest == environment[depth]
         IN  /\ MethodCalled.op = "define" =>
                  /\ MethodCalled.coords[1] = 0
                  /\ IF CalledName \in DOMAIN youngest
                     THEN /\ MethodCalled.coords[2] = youngest[CalledName]
                          /\ environment' = environment
                     ELSE /\ MethodCalled.coords[2] = BlockLen(youngest)
                          /\ Len(environment') = depth
                          /\ OlderBlocksKept(depth - 1)
                          /\ DOMAIN environment'[depth] =
                                DOMAIN youngest \cup {CalledName}
                          /\ environment'[depth][CalledName] =
                                BlockLen(youngest)
                          /\ \A x \in DOMAIN youngest :
                                environment'[depth][x] = youngest[x]
             /\ (MethodCalled.op = "extend" /\ Distinct(MethodCalled.names)) =>
                  /\ Len(environment') = depth + 1
                  /\ OlderBlocksKept(depth)
                  /\ DOMAIN environment'[depth + 1] = SeqToSet(MethodCalled.names)
                  /\ \A k \in 1 .. Len(MethodCalled.names) :
                        /\ environment'[depth + 1][MethodCalled.names[k]] = k - 1
                        /\ ArgumentSlot(Len(MethodCalled.names), k, k - 1)
      ]_vars

(* After extend with b and c, define of b has returned the slot b has. *)
C30_Witness ==
    /\ prog.shape = "environment"
    /\ Len(environment) = 2
    /\ environment[2] = ("b" :> 0) @@ ("c" :> 1)
    /\ log = <<EnvCall("define", <<"b">>, <<0, 0>>)>>

----------------------------------------------------------------------------
(* Lookup and pop of the static Environment *)

(* The blocks that bind the name. *)
BlocksWith(name) ==
    {k \in 1 .. Len(environment) : name \in DOMAIN environment[k]}

(* C31: lookup(name) returns (i, j) for the innermost block that contains  *)
(* the name, i the number of blocks between the innermost block and that   *)
(* block and j the slot of the name there, so an inner binding shadows an  *)
(* outer one; it returns None when no block contains the name, and it      *)
(* never modifies the environment.                                         *)
C31_LookupFindsInnermost ==
    [][(prog.shape = "environment" /\ MethodCalled.op = "lookup") =>
         /\ environment' = environment
         /\ (MethodCalled.coords = <<>>) = (BlocksWith(CalledName) = {})
         /\ \A k \in BlocksWith(CalledName) :
               (\A y \in BlocksWith(CalledName) : y <= k) =>
                  MethodCalled.coords =
                     <<Len(environment) - k, environment[k][CalledName]>>
      ]_vars

(* a is global at slot 0 and a parameter at slot 1: lookup finds the       *)
(* parameter.                                                              *)
C31_Witness ==
    /\ prog.shape = "environment"
    /\ environment = << ("a" :> 0), ("b" :> 0) @@ ("a" :> 1) >>
    /\ log = <<EnvCall("lookup", <<"a">>, <<0, 1>>)>>

(* C32: the static environment always has at least one block; pop removes *)
(* only the innermost block when there is more than the global one and     *)
(* panics when only the global block is left; no extend and no pop removes *)
(* or changes the global block.                                            *)
C32_GlobalBlockStays ==
    /\ [](prog.shape = "environment" => Len(environment) >= 1)
    /\ [][prog.shape = "environment" =>
            /\ MethodCalled.op = "pop" =>
                 IF Len(environment) > 1
                 THEN /\ environment' =
                            SubSeq(environment, 1, Len(environment) - 1)
                      /\ panicked' = ""
                 ELSE /\ environment' = environment
                      /\ panicked' # ""
            /\ MethodCalled.op \in {"pop", "extend"} =>
                 environment'[1] = environment[1]
        ]_vars

(* pop was called on the global block alone, which still binds a name. *)
C32_Witness ==
    /\ prog.shape = "environment"
    /\ panicked = "Should never pop off the global environment"
    /\ log = <<EnvCall("pop", <<>>, <<>>)>>
    /\ Len(environment) = 1
    /\ DOMAIN environment[1] # {}

----------------------------------------------------------------------------
(* Definition at runtime *)

(* The value of a Definition has been evaluated: act.define(j, val) is     *)
(* next.                                                                   *)
DefineStep == Returning("evaluate_definition", "Ok")

(* C33: Activation::define(j, v) stores v in slot j of the activation,     *)
(* after extending the slots with unbound entries up to index j when the   *)
(* activation is shorter; every other slot that existed keeps what it had, *)
(* the parent is unchanged, no other activation changes, and the           *)
(* Definition yields the unspecified symbol.                               *)
C33_DefineStoresInSlot ==
    [][DefineStep =>
         LET a == Top.act
             j == Top.m.j
             before == environments.pool[a].vals
             after == environments'.pool[a].vals
         IN  /\ Len(after) = IF Len(before) > j THEN Len(before) ELSE j + 1
             /\ after[j + 1] = <<ctl.val>>
             /\ \A k \in 1 .. Len(after) :
                   k # j + 1 =>
                      after[k] = IF k <= Len(before) THEN before[k] ELSE <<>>
             /\ environments'.pool[a].parent = environments.pool[a].parent
             /\ \A b \in DOMAIN environments.pool :
                   b # a => environments'.pool[b] = environments.pool[b]
             /\ ctl'.mode = "Value"
             /\ ctl'.val.tag = "Symbol"
             /\ strings'.pool[ctl'.val.index] = "unspecified"
      ]_vars

(* (define get (lambda () x)) has run: the slot reserved for x before the  *)
(* slot of get is there and unbound, the slot of get holds the procedure.  *)
C33_Witness ==
    LET vals == environments.pool[global_environment].vals IN
    /\ prog.shape = "forward"
    /\ ctl.mode = "Ok"
    /\ ctl.val.tag = "Symbol"
    /\ Len(vals) = Len(PrimitiveNames) + 2
    /\ vals[Len(vals) - 1] = <<>>
    /\ vals[Len(vals)] # <<>>
    /\ vals[Len(vals)][1].tag = "Procedure"

----------------------------------------------------------------------------
(* evaluate_file *)

(* The read result is an error, or a form whose evaluation fails: a        *)
(* division by zero, or a quote without its datum.                         *)
FailsToEvaluate(item) ==
    \/ item.form = <<>>
    \/ item.form[1] \in {Fails(1), List(<<Sym("quote")>>)}

(* evaluate_file is between two forms or has returned: no evaluation is    *)
(* under way.                                                              *)
BetweenForms ==
    /\ prog.shape = "batch"
    /\ pc \in {"file", "exit"}
    /\ budget > 0
    /\ stack = <<>>
    /\ ctl.mode \in {"Ok", "Err"}

(* The file evaluate_file was called with last, and the read results       *)
(* taken from it so far.                                                   *)
CurrentFile == prog.files[budget]

FormsTaken ==
    SelectSeq(log, LAMBDA e : e.event = "form" /\ e.act = budget)

(* The global variable x has the value v. *)
GlobalXIs(v) ==
    LET found == EnvironmentLookup(environment, "x") IN
    /\ found # <<>>
    /\ found[1].i = 0
    /\ Fetch(environments.pool, global_environment, 0, found[1].j)
          = <<Integer(v)>>

----------------------------------------------------------------------------
(* Termination of the mark phase *)

(* The loop of the mark phase is left. *)
MarkDone == prog.shape = "mark" /\ pc \in {"sweep", "idle"}

(* The thing was traced more than once. *)
TracedAgain ==
    \E a \in 1 .. Len(log) : \E b \in 1 .. Len(log) :
        a # b /\ log[a] = log[b]

(* C35: the mark phase of collect_garbage terminates for every heap graph, *)
(* cycles and shared structure included; each GC thing is put into the     *)
(* marked set and has its referents traced at most once, and what is       *)
(* marked at the end is what the roots lead to.                            *)
C35_MarkTerminates ==
    /\ <>MarkDone
    /\ [](prog.shape = "mark" =>
             /\ ~TracedAgain
             /\ SeqToSet(log) = marked
             /\ MarkDone => marked = ReachableFrom(SeqToSet(GetRoots)))
    /\ [][prog.shape = "mark" => marked \subseteq marked']_vars

(* Both cells point to themselves and to each other, one is rooted, the    *)
(* procedure and the activations lead back to the first: all five things   *)
(* are marked, each traced once.                                           *)
C35_Witness ==
    /\ MarkDone
    /\ cons_cells.pool[0] = [car |-> Pair(0), cdr |-> Pair(0)]
    /\ cons_cells.pool[1].car = Pair(1)
    /\ cons_cells.pool[1].cdr = Pair(0)
    /\ Cardinality(marked) >= 2
    /\ GcThing("Cons", 0) \in marked
    /\ GcThing("Cons", 1) \in marked
    /\ Len(log) = Cardinality(marked)

----------------------------------------------------------------------------
(* The assertion of drop_root *)

DropRootMessage == "Should never drop_root a gc thing that isn't rooted"

(* The step drops or emplaces a smart pointer that wraps no GC thing. *)
ImmediateGoes ==
    \E h \in Handles :
        /\ ToGcThing(h) = <<>>
        /\ CopiesIn(h, rooted') < CopiesIn(h, rooted)

(* C36: for any sequence of Rooted constructions, clones, emplace calls    *)
(* and drops, also of smart pointers that wrap immediate values, drop_root *)
(* is never called for a GC thing that is not in the root multiset: its    *)
(* assertion never fails, every live smart pointer that wraps a GC thing   *)
(* finds it in the multiset, and one that wraps an immediate value leaves  *)
(* the multiset alone when it goes.                                        *)
C36_DropRootNeverFails ==
    /\ [](/\ panicked # DropRootMessage
          /\ \A h \in Handles : ~RootedDropRootFails(roots, h))
    /\ [][(ImmediateGoes /\ BagCardinality(rooted') < BagCardinality(rooted))
             => roots' = roots]_vars

(* A pair was made from two smart pointers of the empty list, and all      *)
(* three smart pointers are dropped again.                                 *)
C36_Witness ==
    /\ prog.shape = ""
    /\ panicked = ""
    /\ rooted = EmptyBag
    /\ DOMAIN roots = {}
    /\ allocations >= 1
    /\ cons_cells.free # Range(0, ConsCapacity)

----------------------------------------------------------------------------
(* The frame index of a Definition *)

(* The Definitions a Meaning consists of, itself included. *)
RECURSIVE DefinitionsIn(_)
DefinitionsIn(m) ==
    CASE m.op = "Definition" -> {m} \cup DefinitionsIn(m.value)
      [] m.op = "SetVariable" -> DefinitionsIn(m.value)
      [] m.op = "Conditional" ->
            DefinitionsIn(m.condition) \cup DefinitionsIn(m.consequent)
            \cup DefinitionsIn(m.alternative)
      [] m.op = "Sequence" ->
            DefinitionsIn(m.first) \cup DefinitionsIn(m.second)
      [] m.op = "Lambda" -> DefinitionsIn(m.body)
      [] m.op = "Invocation" ->
            DefinitionsIn(m.procedure)
            \cup UNION {DefinitionsIn(m.params[k]) :
                           k \in 1 .. Len(m.params)}
      [] OTHER -> {}

(* The Meanings there are: the one being called or returned, those of the  *)
(* pending calls and the bodies of the procedures.                         *)
MeaningsAbout ==
    SeqToSet(ctl.m)
    \cup {stack[k].m : k \in 1 .. Len(stack)}
    \cup UNION {SeqToSet(procedures.pool[p].body) :
                   p \in DOMAIN procedures.pool}

(* C37: every Definition that analyze produces has the frame index 0, so   *)
(* the assertion of evaluate_definition never fails, and a define binds in *)
(* the activation that executes it: inside a lambda body that is the       *)
(* activation of the call, and the global activation is not touched.       *)
C37_DefinitionsAreLocal ==
    /\ [](\A m \in MeaningsAbout : \A d \in DefinitionsIn(m) : d.i = 0)
    /\ [][/\ Entering("Definition") => ctl.m[1].i = 0
          /\ DefineStep =>
                /\ Bound(environments'.pool[Top.act], Top.m.j)
                /\ \A b \in DOMAIN environments.pool :
                      b # Top.act =>
                         environments'.pool[b] = environments.pool[b]
         ]_vars

(* ((lambda (x) (define y 2) (- x y)) 5) has returned 3: y was defined in  *)
(* the activation of the call, behind x, and the global activation has no  *)
(* slot for it.                                                            *)
C37_Witness ==
    /\ prog.shape = "local"
    /\ forms = <<>>
    /\ stack = <<>>
    /\ ctl = Ok(Integer(3))
    /\ Len(environments.pool[global_environment].vals) = Len(PrimitiveNames)
    /\ \E a \in DOMAIN environments.pool :
          /\ a # global_environment
          /\ environments.pool[a].vals = << <<Integer(5)>>, <<Integer(2)>> >>

----------------------------------------------------------------------------
(* The free lists of the arenas *)

(* No index occurs twice in the list. *)
NoDuplicates(free) ==
    \A a \in 1 .. Len(free) : \A b \in 1 .. Len(free) :
        free[a] = free[b] => a = b

(* The step has allocated: an allocating constructor has returned. *)
Allocates == ret' # NoThing

(* C38: in every state the free list of each arena holds no index twice    *)
(* and only indices below the capacity, and is_full is true exactly when   *)
(* the list is empty; the free list of a new arena holds every index       *)
(* 0..capacity-1 exactly once; allocate returns the last index of the free *)
(* list and takes it off, and without a sweep no index comes back to a     *)
(* free list, so the handles allocated between two sweeps are pairwise     *)
(* distinct.                                                               *)
C38_FreeListIsSound ==
    /\ [](/\ \A k \in Kinds :
                LET arena == ArenaOf(k) IN
                /\ NoDuplicates(arena.free)
                /\ SeqToSet(arena.free) \subseteq 0 .. Capacity(arena) - 1
                /\ IsFull(arena) <=> Len(arena.free) = 0
          /\ \A capacity \in 1 .. ConsCapacity + 1 :
                LET new == ArenaNew(capacity, DefaultCons) IN
                /\ Len(new.free) = capacity
                /\ SeqToSet(new.free) = 0 .. capacity - 1
                /\ ~IsFull(new)
          /\ ret # NoThing => ~InFreeList(ret))
    /\ [][/\ Allocates =>
                \A k \in Kinds :
                    ret'.kind = k =>
                       LET before == ArenaOf(k)
                           after == ArenaOf(k)'
                       IN  /\ ~IsFull(before)
                           /\ ret'.index = before.free[Len(before.free)]
                           /\ after.free =
                                 SubSeq(before.free, 1, Len(before.free) - 1)
          /\ ~Collected =>
                \A k \in Kinds :
                    SeqToSet(ArenaOf(k)'.free)
                       \subseteq SeqToSet(ArenaOf(k).free)
         ]_vars

(* Both cells are allocated and held, the second one just now: the two     *)
(* pairs are different and the arena is full.                              *)
C38_Witness ==
    /\ prog.shape = ""
    /\ IsFull(cons_cells)
    /\ allocations >= ConsCapacity
    /\ ret = GcThing("Cons", 0)
    /\ {Pair(c) : c \in 0 .. ConsCapacity - 1} \subseteq Handles

====
